---------------------------- MODULE Spec2Model ----------------------------
(***************************************************************************)
(* Model of clip_benchmark/datasets/builder.py: the dataset resolver       *)
(* build_dataset with its tfds/vtab paths, the task extraction, the        *)
(* collate selector, the caption collator and the prompt-template lookup.  *)
(*                                                                         *)
(* Python strings that the code inspects (dataset identifiers) are         *)
(* sequences of one-character strings, so that startswith, split and join  *)
(* are computed as Python computes them.  Strings the code only passes     *)
(* along (messages, templates, split names, backend names) are TLA+        *)
(* strings.                                                                *)
(***************************************************************************)
EXTENDS Integers, Sequences, FiniteSets, TLC

VARIABLES request, fs, backend, pc, events, result, appended, handles

vars == <<request, fs, backend, pc, events, result, appended, handles>>

(***************************************************************************)
(* Bounds of the model.                                                    *)
(***************************************************************************)
\* longest free-form string over Alphabet that is tried as (part of) an identifier
MaxLen == 2
\* largest number of handles a caller keeps from successive calls
MaxCalls == 3
\* largest number of entries a caller appends to one list
MaxEdits == 2
\* longest class name of a backend's own list
MaxNameLen == 3
\* largest number of samples of a modelled dataset or batch
MaxSamples == 2
\* labels of a modelled dataset range over 0..NumClasses
NumClasses == 2

(***************************************************************************)
(* The string literals of the source, as character sequences.              *)
(***************************************************************************)
Lit == [
    cifar10 |-> <<"c","i","f","a","r","1","0">>,
    cifar100 |-> <<"c","i","f","a","r","1","0","0">>,
    imagenet1k |-> <<"i","m","a","g","e","n","e","t","1","k">>,
    voc2007 |-> <<"v","o","c","2","0","0","7">>,
    mscoco_captions |-> <<"m","s","c","o","c","o","_","c","a","p","t","i","o","n","s">>,
    flickr30k |-> <<"f","l","i","c","k","r","3","0","k">>,
    flickr8k |-> <<"f","l","i","c","k","r","8","k">>,
    food101 |-> <<"f","o","o","d","1","0","1">>,
    sun397 |-> <<"s","u","n","3","9","7">>,
    cars |-> <<"c","a","r","s">>,
    fgvc_aircraft |-> <<"f","g","v","c","_","a","i","r","c","r","a","f","t">>,
    dtd |-> <<"d","t","d">>,
    pets |-> <<"p","e","t","s">>,
    caltech101 |-> <<"c","a","l","t","e","c","h","1","0","1">>,
    flowers |-> <<"f","l","o","w","e","r","s">>,
    mnist |-> <<"m","n","i","s","t">>,
    stl10 |-> <<"s","t","l","1","0">>,
    eurosat |-> <<"e","u","r","o","s","a","t">>,
    gtsrb |-> <<"g","t","s","r","b">>,
    country211 |-> <<"c","o","u","n","t","r","y","2","1","1">>,
    pcam |-> <<"p","c","a","m">>,
    renderedsst2 |-> <<"r","e","n","d","e","r","e","d","s","s","t","2">>,
    fer2013 |-> <<"f","e","r","2","0","1","3">>,
    cub |-> <<"c","u","b">>,
    diabetic_retinopathy |-> <<"d","i","a","b","e","t","i","c","_","r","e","t","i","n","o","p","a","t","h","y">>,
    dmlab |-> <<"d","m","l","a","b">>,
    inaturalist |-> <<"i","n","a","t","u","r","a","l","i","s","t">>,
    resisc45 |-> <<"r","e","s","i","s","c","4","5">>,
    svhn |-> <<"s","v","h","n">>,
    count_all |-> <<"c","o","u","n","t","_","a","l","l">>,
    closest_object_distance |-> <<"c","l","o","s","e","s","t","_","o","b","j","e","c","t","_","d","i","s","t","a","n","c","e">>,
    label_shape |-> <<"l","a","b","e","l","_","s","h","a","p","e">>,
    label_scale |-> <<"l","a","b","e","l","_","s","c","a","l","e">>,
    label_orientation |-> <<"l","a","b","e","l","_","o","r","i","e","n","t","a","t","i","o","n">>,
    label_x_position |-> <<"l","a","b","e","l","_","x","_","p","o","s","i","t","i","o","n">>,
    label_y_position |-> <<"l","a","b","e","l","_","y","_","p","o","s","i","t","i","o","n">>,
    count_left |-> <<"c","o","u","n","t","_","l","e","f","t">>,
    count_far |-> <<"c","o","u","n","t","_","f","a","r">>,
    count_near |-> <<"c","o","u","n","t","_","n","e","a","r">>,
    closest_object_x_location |-> <<"c","l","o","s","e","s","t","_","o","b","j","e","c","t","_","x","_","l","o","c","a","t","i","o","n">>,
    count_vehicles |-> <<"c","o","u","n","t","_","v","e","h","i","c","l","e","s">>,
    closest_vehicle_distance |-> <<"c","l","o","s","e","s","t","_","v","e","h","i","c","l","e","_","d","i","s","t","a","n","c","e">>,
    label_category |-> <<"l","a","b","e","l","_","c","a","t","e","g","o","r","y">>,
    label_elevation |-> <<"l","a","b","e","l","_","e","l","e","v","a","t","i","o","n">>,
    label_azimuth |-> <<"l","a","b","e","l","_","a","z","i","m","u","t","h">>,
    label_lighting |-> <<"l","a","b","e","l","_","l","i","g","h","t","i","n","g">>,
    clevr_count_all |-> <<"c","l","e","v","r","_","c","o","u","n","t","_","a","l","l">>,
    clevr_closest_object_distance |-> <<"c","l","e","v","r","_","c","l","o","s","e","s","t","_","o","b","j","e","c","t","_","d","i","s","t","a","n","c","e">>,
    kitti_closest_vehicle_distance |-> <<"k","i","t","t","i","_","c","l","o","s","e","s","t","_","v","e","h","i","c","l","e","_","d","i","s","t","a","n","c","e">>,
    smallnorb_label_azimuth |-> <<"s","m","a","l","l","n","o","r","b","_","l","a","b","e","l","_","a","z","i","m","u","t","h">>,
    smallnorb_label_elevation |-> <<"s","m","a","l","l","n","o","r","b","_","l","a","b","e","l","_","e","l","e","v","a","t","i","o","n">>,
    dsprites_label_x_position |-> <<"d","s","p","r","i","t","e","s","_","l","a","b","e","l","_","x","_","p","o","s","i","t","i","o","n">>,
    dsprites_label_orientation |-> <<"d","s","p","r","i","t","e","s","_","l","a","b","e","l","_","o","r","i","e","n","t","a","t","i","o","n">>,
    caltech101_vtab |-> <<"c","a","l","t","e","c","h","1","0","1","_","v","t","a","b">>,
    label |-> <<"l","a","b","e","l">>,
    tfds_ |-> <<"t","f","d","s","/">>,
    vtab_ |-> <<"v","t","a","b","/">>,
    clevr_ |-> <<"c","l","e","v","r","_">>,
    dsprites_ |-> <<"d","s","p","r","i","t","e","s","_">>,
    kitti_ |-> <<"k","i","t","t","i","_">>,
    smallnorb_ |-> <<"s","m","a","l","l","n","o","r","b","_">>
]

(***************************************************************************)
(* Python str operations.                                                  *)
(***************************************************************************)
\* a comparison with the whole string where a prefix test is meant
startswith_whole(s, p) == s = p

\* s.startswith(p)
startswith(s, p) == Len(s) >= Len(p) /\ SubSeq(s, 1, Len(p)) = p

\* index of the first occurrence of character c in s, 0 when there is none
find(s, c) ==
    IF \E i \in 1..Len(s) : s[i] = c
    THEN CHOOSE i \in 1..Len(s) : s[i] = c /\ \A j \in 1..(i - 1) : s[j] # c
    ELSE 0

\* s.split(c) for a one-character separator: always at least one segment
RECURSIVE str_split(_, _)
str_split(s, c) ==
    IF find(s, c) = 0
    THEN <<s>>
    ELSE <<SubSeq(s, 1, find(s, c) - 1)>> \o str_split(SubSeq(s, find(s, c) + 1, Len(s)), c)

\* c.join(segments)
RECURSIVE str_join(_, _)
str_join(c, segments) ==
    IF segments = <<>> THEN <<>>
    ELSE IF Len(segments) = 1 THEN segments[1]
    ELSE segments[1] \o <<c>> \o str_join(c, Tail(segments))

\* None and str values of an optional argument
None == [tag |-> "None"]
Str(v) == [tag |-> "str", v |-> v]


(***************************************************************************)
(* The prompt template table and the class name table.                     *)
(***************************************************************************)
zeroshot_classification_templates ==
    Lit.cifar10 :> <<
        "a photo of a {c}.",
        "a blurry photo of a {c}.",
        "a black and white photo of a {c}.",
        "a low contrast photo of a {c}.",
        "a high contrast photo of a {c}.",
        "a bad photo of a {c}.",
        "a good photo of a {c}.",
        "a photo of a small {c}.",
        "a photo of a big {c}.",
        "a photo of the {c}.",
        "a blurry photo of the {c}.",
        "a black and white photo of the {c}.",
        "a low contrast photo of the {c}.",
        "a high contrast photo of the {c}.",
        "a bad photo of the {c}.",
        "a good photo of the {c}.",
        "a photo of the small {c}.",
        "a photo of the big {c}."
    >> @@
    Lit.cifar100 :> <<
        "a photo of a {c}.",
        "a blurry photo of a {c}.",
        "a black and white photo of a {c}.",
        "a low contrast photo of a {c}.",
        "a high contrast photo of a {c}.",
        "a bad photo of a {c}.",
        "a good photo of a {c}.",
        "a photo of a small {c}.",
        "a photo of a big {c}.",
        "a photo of the {c}.",
        "a blurry photo of the {c}.",
        "a black and white photo of the {c}.",
        "a low contrast photo of the {c}.",
        "a high contrast photo of the {c}.",
        "a bad photo of the {c}.",
        "a good photo of the {c}.",
        "a photo of the small {c}.",
        "a photo of the big {c}."
    >> @@
    Lit.imagenet1k :> <<
        "a bad photo of a {c}.",
        "a photo of many {c}.",
        "a sculpture of a {c}.",
        "a photo of the hard to see {c}.",
        "a low resolution photo of the {c}.",
        "a rendering of a {c}.",
        "graffiti of a {c}.",
        "a bad photo of the {c}.",
        "a cropped photo of the {c}.",
        "a tattoo of a {c}.",
        "the embroidered {c}.",
        "a photo of a hard to see {c}.",
        "a bright photo of a {c}.",
        "a photo of a clean {c}.",
        "a photo of a dirty {c}.",
        "a dark photo of the {c}.",
        "a drawing of a {c}.",
        "a photo of my {c}.",
        "the plastic {c}.",
        "a photo of the cool {c}.",
        "a close-up photo of a {c}.",
        "a black and white photo of the {c}.",
        "a painting of the {c}.",
        "a painting of a {c}.",
        "a pixelated photo of the {c}.",
        "a sculpture of the {c}.",
        "a bright photo of the {c}.",
        "a cropped photo of a {c}.",
        "a plastic {c}.",
        "a photo of the dirty {c}.",
        "a jpeg corrupted photo of a {c}.",
        "a blurry photo of the {c}.",
        "a photo of the {c}.",
        "a good photo of the {c}.",
        "a rendering of the {c}.",
        "a {c} in a video game.",
        "a photo of one {c}.",
        "a doodle of a {c}.",
        "a close-up photo of the {c}.",
        "a photo of a {c}.",
        "the origami {c}.",
        "the {c} in a video game.",
        "a sketch of a {c}.",
        "a doodle of the {c}.",
        "a origami {c}.",
        "a low resolution photo of a {c}.",
        "the toy {c}.",
        "a rendition of the {c}.",
        "a photo of the clean {c}.",
        "a photo of a large {c}.",
        "a rendition of a {c}.",
        "a photo of a nice {c}.",
        "a photo of a weird {c}.",
        "a blurry photo of a {c}.",
        "a cartoon {c}.",
        "art of a {c}.",
        "a sketch of the {c}.",
        "a embroidered {c}.",
        "a pixelated photo of a {c}.",
        "itap of the {c}.",
        "a jpeg corrupted photo of the {c}.",
        "a good photo of a {c}.",
        "a plushie {c}.",
        "a photo of the nice {c}.",
        "a photo of the small {c}.",
        "a photo of the weird {c}.",
        "the cartoon {c}.",
        "art of the {c}.",
        "a drawing of the {c}.",
        "a photo of the large {c}.",
        "a black and white photo of a {c}.",
        "the plushie {c}.",
        "a dark photo of a {c}.",
        "itap of a {c}.",
        "graffiti of the {c}.",
        "a toy {c}.",
        "itap of my {c}.",
        "a photo of a cool {c}.",
        "a photo of a small {c}.",
        "a tattoo of the {c}."
    >> @@
    Lit.food101 :> <<
        "a photo of {c}, a type of food."
    >> @@
    Lit.sun397 :> <<
        "a photo of a {c}.",
        "a photo of the {c}."
    >> @@
    Lit.cars :> <<
        "a photo of a {c}.",
        "a photo of the {c}.",
        "a photo of my {c}.",
        "i love my {c}!",
        "a photo of my dirty {c}.",
        "a photo of my clean {c}.",
        "a photo of my new {c}.",
        "a photo of my old {c}."
    >> @@
    Lit.fgvc_aircraft :> <<
        "a photo of a {c}, a type of aircraft.",
        "a photo of the {c}, a type of aircraft."
    >> @@
    Lit.dtd :> <<
        "a photo of a {c} texture.",
        "a photo of a {c} pattern.",
        "a photo of a {c} thing.",
        "a photo of a {c} object.",
        "a photo of the {c} texture.",
        "a photo of the {c} pattern.",
        "a photo of the {c} thing.",
        "a photo of the {c} object."
    >> @@
    Lit.pets :> <<
        "a photo of a {c}, a type of pet."
    >> @@
    Lit.caltech101 :> <<
        "a photo of a {c}.",
        "a painting of a {c}.",
        "a plastic {c}.",
        "a sculpture of a {c}.",
        "a sketch of a {c}.",
        "a tattoo of a {c}.",
        "a toy {c}.",
        "a rendition of a {c}.",
        "a embroidered {c}.",
        "a cartoon {c}.",
        "a {c} in a video game.",
        "a plushie {c}.",
        "a origami {c}.",
        "art of a {c}.",
        "graffiti of a {c}.",
        "a drawing of a {c}.",
        "a doodle of a {c}.",
        "a photo of the {c}.",
        "a painting of the {c}.",
        "the plastic {c}.",
        "a sculpture of the {c}.",
        "a sketch of the {c}.",
        "a tattoo of the {c}.",
        "the toy {c}.",
        "a rendition of the {c}.",
        "the embroidered {c}.",
        "the cartoon {c}.",
        "the {c} in a video game.",
        "the plushie {c}.",
        "the origami {c}.",
        "art of the {c}.",
        "graffiti of the {c}.",
        "a drawing of the {c}.",
        "a doodle of the {c}."
    >> @@
    Lit.flowers :> <<
        "a photo of a {c}, a type of flower."
    >> @@
    Lit.mnist :> <<
        "a photo of the number: \"{c}\"."
    >> @@
    Lit.stl10 :> <<
        "a photo of a {c}.",
        "a photo of the {c}."
    >> @@
    Lit.eurosat :> <<
        "a centered satellite photo of {c}.",
        "a centered satellite photo of a {c}.",
        "a centered satellite photo of the {c}."
    >> @@
    Lit.gtsrb :> <<
        "a zoomed in photo of a \"{c}\" traffic sign.",
        "a centered photo of a \"{c}\" traffic sign.",
        "a close up photo of a \"{c}\" traffic sign."
    >> @@
    Lit.country211 :> <<
        "a photo i took in {c}.",
        "a photo i took while visiting {c}.",
        "a photo from my home country of {c}.",
        "a photo from my visit to {c}.",
        "a photo showing the country of {c}."
    >> @@
    Lit.renderedsst2 :> <<
        "a {c} review of a movie."
    >> @@
    Lit.voc2007 :> <<
        "a photo of a {c}."
    >> @@
    Lit.fer2013 :> <<
        "a photo of a {c} looking face.",
        "a photo of a face showing the emotion: {c}.",
        "a photo of a face looking {c}.",
        "a face that looks {c}.",
        "they look {c}.",
        "look at how {c} they are."
    >> @@
    Lit.clevr_count_all :> <<
        "a picture of {c} objects"
    >> @@
    Lit.clevr_closest_object_distance :> <<
        "{c} shapes."
    >> @@
    Lit.pcam :> <<
        "a histopathology slide showing {c}",
        "histopathology image of {c}"
    >> @@
    Lit.svhn :> <<
        "a photo of the number {c} written on a sign",
        "an outdoor house number {c}",
        "the number {c} in the center of the image",
        "an outdoor number {c} writte on a sign",
        "an outdoor number {c}",
        "a centered image of the number {c}"
    >> @@
    Lit.resisc45 :> <<
        "a sattelite image of {c}",
        "an aerial view of {c}",
        "a sattelite photo of {c}",
        "{c} from above"
    >> @@
    Lit.kitti_closest_vehicle_distance :> <<
        "{c}"
    >> @@
    Lit.smallnorb_label_azimuth :> <<
        "an object rotated at {c}",
        "something rotated at {c}",
        "{c} rotation",
        "something at a {c} angle"
    >> @@
    Lit.smallnorb_label_elevation :> <<
        "an object rotated at {c}",
        "something rotated at {c}",
        "{c} rotation",
        "something at a {c} angle"
    >> @@
    Lit.dsprites_label_x_position :> <<
        "an object located at position {c}% on the horizontal axis"
    >> @@
    Lit.dsprites_label_orientation :> <<
        "an object rotated at {c}",
        "something rotated at {c}",
        "{c} rotation",
        "something at a {c} angle"
    >> @@
    Lit.dmlab :> <<
        "{c}"
    >> @@
    Lit.diabetic_retinopathy :> <<
        "a retinal image with {c}"
    >>

classnames ==
    Lit.flowers :> <<
        "pink primrose", "hard-leaved pocket orchid", "canterbury bells", "sweet pea",
        "english marigold", "tiger lily", "moon orchid", "bird of paradise", "monkshood",
        "globe thistle", "snapdragon", "colt's foot", "king protea", "spear thistle",
        "yellow iris", "globe flower", "purple coneflower", "peruvian lily", "balloon flower",
        "giant white arum lily", "fire lily", "pincushion flower", "fritillary",
        "red ginger", "grape hyacinth", "corn poppy", "prince of wales feathers",
        "stemless gentian", "artichoke", "sweet william", "carnation", "garden phlox",
        "love in the mist", "mexican aster", "alpine sea holly", "ruby-lipped cattleya",
        "cape flower", "great masterwort", "siam tulip", "lenten rose", "barbeton daisy",
        "daffodil", "sword lily", "poinsettia", "bolero deep blue", "wallflower",
        "marigold", "buttercup", "oxeye daisy", "common dandelion", "petunia",
        "wild pansy", "primula", "sunflower", "pelargonium", "bishop of llandaff",
        "gaura", "geranium", "orange dahlia", "pink and yellow dahlia", "cautleya spicata",
        "japanese anemone", "black-eyed susan", "silverbush", "californian poppy",
        "osteospermum", "spring crocus", "bearded iris", "windflower", "tree poppy",
        "gazania", "azalea", "water lily", "rose", "thorn apple", "morning glory",
        "passion flower", "lotus", "toad lily", "anthurium", "frangipani", "clematis",
        "hibiscus", "columbine", "desert-rose", "tree mallow", "magnolia", "cyclamen",
        "watercress", "canna lily", "hippeastrum", "bee balm", "air plant", "foxglove",
        "bougainvillea", "camellia", "mallow", "mexican petunia", "bromelia", "blanket flower",
        "trumpet creeper", "blackberry lily"
    >> @@
    Lit.gtsrb :> <<
        "red and white circle 20 kph speed limit", "red and white circle 30 kph speed limit",
        "red and white circle 50 kph speed limit", "red and white circle 60 kph speed limit",
        "red and white circle 70 kph speed limit", "red and white circle 80 kph speed limit",
        "end / de-restriction of 80 kph speed limit", "red and white circle 100 kph speed limit",
        "red and white circle 120 kph speed limit", "red and white circle red car and black car no passing",
        "red and white circle red truck and black car no passing", "red and white triangle road intersection warning",
        "white and yellow diamond priority road", "red and white upside down triangle yield right-of-way",
        "stop", "empty red and white circle", "red and white circle no truck entry",
        "red circle with white horizonal stripe no entry", "red and white triangle with exclamation mark warning",
        "red and white triangle with black left curve approaching warning", "red and white triangle with black right curve approaching warning",
        "red and white triangle with black double curve approaching warning", "red and white triangle rough / bumpy road warning",
        "red and white triangle car skidding / slipping warning", "red and white triangle with merging / narrow lanes warning",
        "red and white triangle with person digging / construction / road work warning",
        "red and white triangle with traffic light approaching warning", "red and white triangle with person walking warning",
        "red and white triangle with child and person walking warning", "red and white triangle with bicyle warning",
        "red and white triangle with snowflake / ice warning", "red and white triangle with deer warning",
        "white circle with gray strike bar no speed limit", "blue circle with white right turn arrow mandatory",
        "blue circle with white left turn arrow mandatory", "blue circle with white forward arrow mandatory",
        "blue circle with white forward or right turn arrow mandatory", "blue circle with white forward or left turn arrow mandatory",
        "blue circle with white keep right arrow mandatory", "blue circle with white keep left arrow mandatory",
        "blue circle with white arrows indicating a traffic circle", "white circle with gray strike bar indicating no passing for cars has ended",
        "white circle with gray strike bar indicating no passing for trucks has ended"
    >> @@
    Lit.country211 :> <<
        "Andorra", "United Arab Emirates", "Afghanistan", "Antigua and Barbuda",
        "Anguilla", "Albania", "Armenia", "Angola", "Antarctica", "Argentina",
        "Austria", "Australia", "Aruba", "Aland Islands", "Azerbaijan", "Bosnia and Herzegovina",
        "Barbados", "Bangladesh", "Belgium", "Burkina Faso", "Bulgaria", "Bahrain",
        "Benin", "Bermuda", "Brunei Darussalam", "Bolivia", "Bonaire, Saint Eustatius and Saba",
        "Brazil", "Bahamas", "Bhutan", "Botswana", "Belarus", "Belize", "Canada",
        "DR Congo", "Central African Republic", "Switzerland", "Cote d'Ivoire",
        "Cook Islands", "Chile", "Cameroon", "China", "Colombia", "Costa Rica",
        "Cuba", "Cabo Verde", "Curacao", "Cyprus", "Czech Republic", "Germany",
        "Denmark", "Dominica", "Dominican Republic", "Algeria", "Ecuador", "Estonia",
        "Egypt", "Spain", "Ethiopia", "Finland", "Fiji", "Falkland Islands", "Faeroe Islands",
        "France", "Gabon", "United Kingdom", "Grenada", "Georgia", "French Guiana",
        "Guernsey", "Ghana", "Gibraltar", "Greenland", "Gambia", "Guadeloupe",
        "Greece", "South Georgia and South Sandwich Is.", "Guatemala", "Guam",
        "Guyana", "Hong Kong", "Honduras", "Croatia", "Haiti", "Hungary", "Indonesia",
        "Ireland", "Israel", "Isle of Man", "India", "Iraq", "Iran", "Iceland",
        "Italy", "Jersey", "Jamaica", "Jordan", "Japan", "Kenya", "Kyrgyz Republic",
        "Cambodia", "St. Kitts and Nevis", "North Korea", "South Korea", "Kuwait",
        "Cayman Islands", "Kazakhstan", "Laos", "Lebanon", "St. Lucia", "Liechtenstein",
        "Sri Lanka", "Liberia", "Lithuania", "Luxembourg", "Latvia", "Libya", "Morocco",
        "Monaco", "Moldova", "Montenegro", "Saint-Martin", "Madagascar", "Macedonia",
        "Mali", "Myanmar", "Mongolia", "Macau", "Martinique", "Mauritania", "Malta",
        "Mauritius", "Maldives", "Malawi", "Mexico", "Malaysia", "Mozambique",
        "Namibia", "New Caledonia", "Nigeria", "Nicaragua", "Netherlands", "Norway",
        "Nepal", "New Zealand", "Oman", "Panama", "Peru", "French Polynesia", "Papua New Guinea",
        "Philippines", "Pakistan", "Poland", "Puerto Rico", "Palestine", "Portugal",
        "Palau", "Paraguay", "Qatar", "Reunion", "Romania", "Serbia", "Russia",
        "Rwanda", "Saudi Arabia", "Solomon Islands", "Seychelles", "Sudan", "Sweden",
        "Singapore", "St. Helena", "Slovenia", "Svalbard and Jan Mayen Islands",
        "Slovakia", "Sierra Leone", "San Marino", "Senegal", "Somalia", "South Sudan",
        "El Salvador", "Sint Maarten", "Syria", "Eswatini", "Togo", "Thailand",
        "Tajikistan", "Timor-Leste", "Turkmenistan", "Tunisia", "Tonga", "Turkey",
        "Trinidad and Tobago", "Taiwan", "Tanzania", "Ukraine", "Uganda", "United States",
        "Uruguay", "Uzbekistan", "Vatican", "Venezuela", "British Virgin Islands",
        "United States Virgin Islands", "Vietnam", "Vanuatu", "Samoa", "Kosovo",
        "Yemen", "South Africa", "Zambia", "Zimbabwe"
    >> @@
    Lit.eurosat :> <<
        "annual crop land", "forest", "brushland or shrubland", "highway or road",
        "industrial buildings or commercial buildings", "pasture land", "permanent crop land",
        "residential buildings or homes or apartments", "river", "lake or sea"
    >> @@
    Lit.fer2013 :> <<
        "angry", "disgusted", "fearful", "happy", "neutral", "sad", "surprised"
    >> @@
    Lit.caltech101 :> <<
        "background", "off-center face", "centered face", "leopard", "motorbike",
        "accordion", "airplane", "anchor", "ant", "barrel", "bass", "beaver", "binocular",
        "bonsai", "brain", "brontosaurus", "buddha", "butterfly", "camera", "cannon",
        "side of a car", "ceiling fan", "cellphone", "chair", "chandelier", "body of a cougar cat",
        "face of a cougar cat", "crab", "crayfish", "crocodile", "head of a  crocodile",
        "cup", "dalmatian", "dollar bill", "dolphin", "dragonfly", "electric guitar",
        "elephant", "emu", "euphonium", "ewer", "ferry", "flamingo", "head of a flamingo",
        "garfield", "gerenuk", "gramophone", "grand piano", "hawksbill", "headphone",
        "hedgehog", "helicopter", "ibis", "inline skate", "joshua tree", "kangaroo",
        "ketch", "lamp", "laptop", "llama", "lobster", "lotus", "mandolin", "mayfly",
        "menorah", "metronome", "minaret", "nautilus", "octopus", "okapi", "pagoda",
        "panda", "pigeon", "pizza", "platypus", "pyramid", "revolver", "rhino",
        "rooster", "saxophone", "schooner", "scissors", "scorpion", "sea horse",
        "snoopy (cartoon beagle)", "soccer ball", "stapler", "starfish", "stegosaurus",
        "stop sign", "strawberry", "sunflower", "tick", "trilobite", "umbrella",
        "watch", "water lilly", "wheelchair", "wild cat", "windsor chair", "wrench",
        "yin and yang symbol"
    >> @@
    Lit.caltech101_vtab :> <<
        "accordion", "airplane", "anchor", "ant", "background", "barrel", "bass",
        "beaver", "binocular", "bonsai", "brain", "brontosaurus", "buddha", "butterfly",
        "camera", "cannon", "side of a car", "ceiling fan", "cellphone", "chair",
        "chandelier", "body of a cougar cat", "face of a cougar cat", "crab", "crayfish",
        "crocodile", "head of a  crocodile", "cup", "dalmatian", "dollar bill",
        "dolphin", "dragonfly", "electric guitar", "elephant", "emu", "euphonium",
        "ewer", "off-center face", "centered face", "ferry", "flamingo", "head of a flamingo",
        "garfield", "gerenuk", "gramophone", "grand piano", "hawksbill", "headphone",
        "hedgehog", "helicopter", "ibis", "inline skate", "joshua tree", "kangaroo",
        "ketch", "lamp", "laptop", "leopard", "llama", "lobster", "lotus", "mandolin",
        "mayfly", "menorah", "metronome", "minaret", "motorbike", "nautilus", "octopus",
        "okapi", "pagoda", "panda", "pigeon", "pizza", "platypus", "pyramid", "revolver",
        "rhino", "rooster", "saxophone", "schooner", "scissors", "scorpion", "sea horse",
        "snoopy (cartoon beagle)", "soccer ball", "stapler", "starfish", "stegosaurus",
        "stop sign", "strawberry", "sunflower", "tick", "trilobite", "umbrella",
        "watch", "water lilly", "wheelchair", "wild cat", "windsor chair", "wrench",
        "yin and yang symbol"
    >> @@
    Lit.imagenet1k :> <<
        "tench", "goldfish", "great white shark", "tiger shark", "hammerhead shark",
        "electric ray", "stingray", "rooster", "hen", "ostrich", "brambling", "goldfinch",
        "house finch", "junco", "indigo bunting", "American robin", "bulbul", "jay",
        "magpie", "chickadee", "American dipper", "kite (bird of prey)", "bald eagle",
        "vulture", "great grey owl", "fire salamander", "smooth newt", "newt",
        "spotted salamander", "axolotl", "American bullfrog", "tree frog", "tailed frog",
        "loggerhead sea turtle", "leatherback sea turtle", "mud turtle", "terrapin",
        "box turtle", "banded gecko", "green iguana", "Carolina anole", "desert grassland whiptail lizard",
        "agama", "frilled-necked lizard", "alligator lizard", "Gila monster", "European green lizard",
        "chameleon", "Komodo dragon", "Nile crocodile", "American alligator", "triceratops",
        "worm snake", "ring-necked snake", "eastern hog-nosed snake", "smooth green snake",
        "kingsnake", "garter snake", "water snake", "vine snake", "night snake",
        "boa constrictor", "African rock python", "Indian cobra", "green mamba",
        "sea snake", "Saharan horned viper", "eastern diamondback rattlesnake",
        "sidewinder rattlesnake", "trilobite", "harvestman", "scorpion", "yellow garden spider",
        "barn spider", "European garden spider", "southern black widow", "tarantula",
        "wolf spider", "tick", "centipede", "black grouse", "ptarmigan", "ruffed grouse",
        "prairie grouse", "peafowl", "quail", "partridge", "african grey parrot",
        "macaw", "sulphur-crested cockatoo", "lorikeet", "coucal", "bee eater",
        "hornbill", "hummingbird", "jacamar", "toucan", "duck", "red-breasted merganser",
        "goose", "black swan", "tusker", "echidna", "platypus", "wallaby", "koala",
        "wombat", "jellyfish", "sea anemone", "brain coral", "flatworm", "nematode",
        "conch", "snail", "slug", "sea slug", "chiton", "chambered nautilus", "Dungeness crab",
        "rock crab", "fiddler crab", "red king crab", "American lobster", "spiny lobster",
        "crayfish", "hermit crab", "isopod", "white stork", "black stork", "spoonbill",
        "flamingo", "little blue heron", "great egret", "bittern bird", "crane bird",
        "limpkin", "common gallinule", "American coot", "bustard", "ruddy turnstone",
        "dunlin", "common redshank", "dowitcher", "oystercatcher", "pelican", "king penguin",
        "albatross", "grey whale", "killer whale", "dugong", "sea lion", "Chihuahua",
        "Japanese Chin", "Maltese", "Pekingese", "Shih Tzu", "King Charles Spaniel",
        "Papillon", "toy terrier", "Rhodesian Ridgeback", "Afghan Hound", "Basset Hound",
        "Beagle", "Bloodhound", "Bluetick Coonhound", "Black and Tan Coonhound",
        "Treeing Walker Coonhound", "English foxhound", "Redbone Coonhound", "borzoi",
        "Irish Wolfhound", "Italian Greyhound", "Whippet", "Ibizan Hound", "Norwegian Elkhound",
        "Otterhound", "Saluki", "Scottish Deerhound", "Weimaraner", "Staffordshire Bull Terrier",
        "American Staffordshire Terrier", "Bedlington Terrier", "Border Terrier",
        "Kerry Blue Terrier", "Irish Terrier", "Norfolk Terrier", "Norwich Terrier",
        "Yorkshire Terrier", "Wire Fox Terrier", "Lakeland Terrier", "Sealyham Terrier",
        "Airedale Terrier", "Cairn Terrier", "Australian Terrier", "Dandie Dinmont Terrier",
        "Boston Terrier", "Miniature Schnauzer", "Giant Schnauzer", "Standard Schnauzer",
        "Scottish Terrier", "Tibetan Terrier", "Australian Silky Terrier", "Soft-coated Wheaten Terrier",
        "West Highland White Terrier", "Lhasa Apso", "Flat-Coated Retriever", "Curly-coated Retriever",
        "Golden Retriever", "Labrador Retriever", "Chesapeake Bay Retriever", "German Shorthaired Pointer",
        "Vizsla", "English Setter", "Irish Setter", "Gordon Setter", "Brittany dog",
        "Clumber Spaniel", "English Springer Spaniel", "Welsh Springer Spaniel",
        "Cocker Spaniel", "Sussex Spaniel", "Irish Water Spaniel", "Kuvasz", "Schipperke",
        "Groenendael dog", "Malinois", "Briard", "Australian Kelpie", "Komondor",
        "Old English Sheepdog", "Shetland Sheepdog", "collie", "Border Collie",
        "Bouvier des Flandres dog", "Rottweiler", "German Shepherd Dog", "Dobermann",
        "Miniature Pinscher", "Greater Swiss Mountain Dog", "Bernese Mountain Dog",
        "Appenzeller Sennenhund", "Entlebucher Sennenhund", "Boxer", "Bullmastiff",
        "Tibetan Mastiff", "French Bulldog", "Great Dane", "St. Bernard", "husky",
        "Alaskan Malamute", "Siberian Husky", "Dalmatian", "Affenpinscher", "Basenji",
        "pug", "Leonberger", "Newfoundland dog", "Great Pyrenees dog", "Samoyed",
        "Pomeranian", "Chow Chow", "Keeshond", "brussels griffon", "Pembroke Welsh Corgi",
        "Cardigan Welsh Corgi", "Toy Poodle", "Miniature Poodle", "Standard Poodle",
        "Mexican hairless dog (xoloitzcuintli)", "grey wolf", "Alaskan tundra wolf",
        "red wolf or maned wolf", "coyote", "dingo", "dhole", "African wild dog",
        "hyena", "red fox", "kit fox", "Arctic fox", "grey fox", "tabby cat", "tiger cat",
        "Persian cat", "Siamese cat", "Egyptian Mau", "cougar", "lynx", "leopard",
        "snow leopard", "jaguar", "lion", "tiger", "cheetah", "brown bear", "American black bear",
        "polar bear", "sloth bear", "mongoose", "meerkat", "tiger beetle", "ladybug",
        "ground beetle", "longhorn beetle", "leaf beetle", "dung beetle", "rhinoceros beetle",
        "weevil", "fly", "bee", "ant", "grasshopper", "cricket insect", "stick insect",
        "cockroach", "praying mantis", "cicada", "leafhopper", "lacewing", "dragonfly",
        "damselfly", "red admiral butterfly", "ringlet butterfly", "monarch butterfly",
        "small white butterfly", "sulphur butterfly", "gossamer-winged butterfly",
        "starfish", "sea urchin", "sea cucumber", "cottontail rabbit", "hare",
        "Angora rabbit", "hamster", "porcupine", "fox squirrel", "marmot", "beaver",
        "guinea pig", "common sorrel horse", "zebra", "pig", "wild boar", "warthog",
        "hippopotamus", "ox", "water buffalo", "bison", "ram (adult male sheep)",
        "bighorn sheep", "Alpine ibex", "hartebeest", "impala (antelope)", "gazelle",
        "arabian camel", "llama", "weasel", "mink", "European polecat", "black-footed ferret",
        "otter", "skunk", "badger", "armadillo", "three-toed sloth", "orangutan",
        "gorilla", "chimpanzee", "gibbon", "siamang", "guenon", "patas monkey",
        "baboon", "macaque", "langur", "black-and-white colobus", "proboscis monkey",
        "marmoset", "white-headed capuchin", "howler monkey", "titi monkey", "Geoffroy's spider monkey",
        "common squirrel monkey", "ring-tailed lemur", "indri", "Asian elephant",
        "African bush elephant", "red panda", "giant panda", "snoek fish", "eel",
        "silver salmon", "rock beauty fish", "clownfish", "sturgeon", "gar fish",
        "lionfish", "pufferfish", "abacus", "abaya", "academic gown", "accordion",
        "acoustic guitar", "aircraft carrier", "airliner", "airship", "altar",
        "ambulance", "amphibious vehicle", "analog clock", "apiary", "apron", "trash can",
        "assault rifle", "backpack", "bakery", "balance beam", "balloon", "ballpoint pen",
        "Band-Aid", "banjo", "baluster / handrail", "barbell", "barber chair",
        "barbershop", "barn", "barometer", "barrel", "wheelbarrow", "baseball",
        "basketball", "bassinet", "bassoon", "swimming cap", "bath towel", "bathtub",
        "station wagon", "lighthouse", "beaker", "military hat (bearskin or shako)",
        "beer bottle", "beer glass", "bell tower", "baby bib", "tandem bicycle",
        "bikini", "ring binder", "binoculars", "birdhouse", "boathouse", "bobsleigh",
        "bolo tie", "poke bonnet", "bookcase", "bookstore", "bottle cap", "hunting bow",
        "bow tie", "brass memorial plaque", "bra", "breakwater", "breastplate",
        "broom", "bucket", "buckle", "bulletproof vest", "high-speed train", "butcher shop",
        "taxicab", "cauldron", "candle", "cannon", "canoe", "can opener", "cardigan",
        "car mirror", "carousel", "tool kit", "cardboard box / carton", "car wheel",
        "automated teller machine", "cassette", "cassette player", "castle", "catamaran",
        "CD player", "cello", "mobile phone", "chain", "chain-link fence", "chain mail",
        "chainsaw", "storage chest", "chiffonier", "bell or wind chime", "china cabinet",
        "Christmas stocking", "church", "movie theater", "cleaver", "cliff dwelling",
        "cloak", "clogs", "cocktail shaker", "coffee mug", "coffeemaker", "spiral or coil",
        "combination lock", "computer keyboard", "candy store", "container ship",
        "convertible", "corkscrew", "cornet", "cowboy boot", "cowboy hat", "cradle",
        "construction crane", "crash helmet", "crate", "infant bed", "Crock Pot",
        "croquet ball", "crutch", "cuirass", "dam", "desk", "desktop computer",
        "rotary dial telephone", "diaper", "digital clock", "digital watch", "dining table",
        "dishcloth", "dishwasher", "disc brake", "dock", "dog sled", "dome", "doormat",
        "drilling rig", "drum", "drumstick", "dumbbell", "Dutch oven", "electric fan",
        "electric guitar", "electric locomotive", "entertainment center", "envelope",
        "espresso machine", "face powder", "feather boa", "filing cabinet", "fireboat",
        "fire truck", "fire screen", "flagpole", "flute", "folding chair", "football helmet",
        "forklift", "fountain", "fountain pen", "four-poster bed", "freight car",
        "French horn", "frying pan", "fur coat", "garbage truck", "gas mask or respirator",
        "gas pump", "goblet", "go-kart", "golf ball", "golf cart", "gondola", "gong",
        "gown", "grand piano", "greenhouse", "radiator grille", "grocery store",
        "guillotine", "hair clip", "hair spray", "half-track", "hammer", "hamper",
        "hair dryer", "hand-held computer", "handkerchief", "hard disk drive",
        "harmonica", "harp", "combine harvester", "hatchet", "holster", "home theater",
        "honeycomb", "hook", "hoop skirt", "gymnastic horizontal bar", "horse-drawn vehicle",
        "hourglass", "iPod", "clothes iron", "carved pumpkin", "jeans", "jeep",
        "T-shirt", "jigsaw puzzle", "rickshaw", "joystick", "kimono", "knee pad",
        "knot", "lab coat", "ladle", "lampshade", "laptop computer", "lawn mower",
        "lens cap", "letter opener", "library", "lifeboat", "lighter", "limousine",
        "ocean liner", "lipstick", "slip-on shoe", "lotion", "music speaker", "loupe magnifying glass",
        "sawmill", "magnetic compass", "messenger bag", "mailbox", "tights", "one-piece bathing suit",
        "manhole cover", "maraca", "marimba", "mask", "matchstick", "maypole",
        "maze", "measuring cup", "medicine cabinet", "megalith", "microphone",
        "microwave oven", "military uniform", "milk can", "minibus", "miniskirt",
        "minivan", "missile", "mitten", "mixing bowl", "mobile home", "ford model t",
        "modem", "monastery", "monitor", "moped", "mortar and pestle", "graduation cap",
        "mosque", "mosquito net", "vespa", "mountain bike", "tent", "computer mouse",
        "mousetrap", "moving van", "muzzle", "metal nail", "neck brace", "necklace",
        "baby pacifier", "notebook computer", "obelisk", "oboe", "ocarina", "odometer",
        "oil filter", "pipe organ", "oscilloscope", "overskirt", "bullock cart",
        "oxygen mask", "product packet / packaging", "paddle", "paddle wheel",
        "padlock", "paintbrush", "pajamas", "palace", "pan flute", "paper towel",
        "parachute", "parallel bars", "park bench", "parking meter", "railroad car",
        "patio", "payphone", "pedestal", "pencil case", "pencil sharpener", "perfume",
        "Petri dish", "photocopier", "plectrum", "Pickelhaube", "picket fence",
        "pickup truck", "pier", "piggy bank", "pill bottle", "pillow", "ping-pong ball",
        "pinwheel", "pirate ship", "drink pitcher", "block plane", "planetarium",
        "plastic bag", "plate rack", "farm plow", "plunger", "Polaroid camera",
        "pole", "police van", "poncho", "pool table", "soda bottle", "plant pot",
        "potter's wheel", "power drill", "prayer rug", "printer", "prison", "missile",
        "projector", "hockey puck", "punching bag", "purse", "quill", "quilt",
        "race car", "racket", "radiator", "radio", "radio telescope", "rain barrel",
        "recreational vehicle", "fishing casting reel", "reflex camera", "refrigerator",
        "remote control", "restaurant", "revolver", "rifle", "rocking chair", "rotisserie",
        "eraser", "rugby ball", "ruler measuring stick", "sneaker", "safe", "safety pin",
        "salt shaker", "sandal", "sarong", "saxophone", "scabbard", "weighing scale",
        "school bus", "schooner", "scoreboard", "CRT monitor", "screw", "screwdriver",
        "seat belt", "sewing machine", "shield", "shoe store", "shoji screen / room divider",
        "shopping basket", "shopping cart", "shovel", "shower cap", "shower curtain",
        "ski", "balaclava ski mask", "sleeping bag", "slide rule", "sliding door",
        "slot machine", "snorkel", "snowmobile", "snowplow", "soap dispenser",
        "soccer ball", "sock", "solar thermal collector", "sombrero", "soup bowl",
        "keyboard space bar", "space heater", "space shuttle", "spatula", "motorboat",
        "spider web", "spindle", "sports car", "spotlight", "stage", "steam locomotive",
        "through arch bridge", "steel drum", "stethoscope", "scarf", "stone wall",
        "stopwatch", "stove", "strainer", "tram", "stretcher", "couch", "stupa",
        "submarine", "suit", "sundial", "sunglasses", "sunglasses", "sunscreen",
        "suspension bridge", "mop", "sweatshirt", "swim trunks / shorts", "swing",
        "electrical switch", "syringe", "table lamp", "tank", "tape player", "teapot",
        "teddy bear", "television", "tennis ball", "thatched roof", "front curtain",
        "thimble", "threshing machine", "throne", "tile roof", "toaster", "tobacco shop",
        "toilet seat", "torch", "totem pole", "tow truck", "toy store", "tractor",
        "semi-trailer truck", "tray", "trench coat", "tricycle", "trimaran", "tripod",
        "triumphal arch", "trolleybus", "trombone", "hot tub", "turnstile", "typewriter keyboard",
        "umbrella", "unicycle", "upright piano", "vacuum cleaner", "vase", "vaulted or arched ceiling",
        "velvet fabric", "vending machine", "vestment", "viaduct", "violin", "volleyball",
        "waffle iron", "wall clock", "wallet", "wardrobe", "military aircraft",
        "sink", "washing machine", "water bottle", "water jug", "water tower",
        "whiskey jug", "whistle", "hair wig", "window screen", "window shade",
        "Windsor tie", "wine bottle", "airplane wing", "wok", "wooden spoon", "wool",
        "split-rail fence", "shipwreck", "sailboat", "yurt", "website", "comic book",
        "crossword", "traffic or street sign", "traffic light", "dust jacket",
        "menu", "plate", "guacamole", "consomme", "hot pot", "trifle", "ice cream",
        "popsicle", "baguette", "bagel", "pretzel", "cheeseburger", "hot dog",
        "mashed potatoes", "cabbage", "broccoli", "cauliflower", "zucchini", "spaghetti squash",
        "acorn squash", "butternut squash", "cucumber", "artichoke", "bell pepper",
        "cardoon", "mushroom", "Granny Smith apple", "strawberry", "orange", "lemon",
        "fig", "pineapple", "banana", "jackfruit", "cherimoya (custard apple)",
        "pomegranate", "hay", "carbonara", "chocolate syrup", "dough", "meatloaf",
        "pizza", "pot pie", "burrito", "red wine", "espresso", "tea cup", "eggnog",
        "mountain", "bubble", "cliff", "coral reef", "geyser", "lakeshore", "promontory",
        "sandbar", "beach", "valley", "volcano", "baseball player", "bridegroom",
        "scuba diver", "rapeseed", "daisy", "yellow lady's slipper", "corn", "acorn",
        "rose hip", "horse chestnut seed", "coral fungus", "agaric", "gyromitra",
        "stinkhorn mushroom", "earth star fungus", "hen of the woods mushroom",
        "bolete", "corn cob", "toilet paper"
    >> @@
    Lit.clevr_count_all :> <<
        "three", "four", "five", "six", "seven", "eight", "nine", "ten"
    >> @@
    Lit.clevr_closest_object_distance :> <<
        "very nearby", "nearby", "near", "", "distant", "very distant"
    >> @@
    Lit.mnist :> <<
        "0", "1", "2", "3", "4", "5", "6", "7", "8", "9"
    >> @@
    Lit.svhn :> <<
        "zero", "one", "two", "three", "four", "five", "six", "seven", "eight",
        "nine"
    >> @@
    Lit.kitti_closest_vehicle_distance :> <<
        "a photo i took of a car on my left or right side.", "a photo i took with a car nearby.",
        "a photo i took with a car in the distance.", "a photo i took with no car."
    >> @@
    Lit.dmlab :> <<
        "nearby apple/melon", "far apple/melon", "very far apple/melon", "nearby lemon",
        "far lemon", "very far lemon"
    >> @@
    Lit.pets :> <<
        "Abyssinian", "American Bulldog", "American Pit Bull Terrier", "Basset Hound",
        "Beagle", "Bengal", "Birman", "Bombay", "Boxer", "British Shorthair", "Chihuahua",
        "Egyptian Mau", "English Cocker Spaniel", "English Setter", "German Shorthaired",
        "Great Pyrenees", "Havanese", "Japanese Chin", "Keeshond", "Leonberger",
        "Maine Coon", "Miniature Pinscher", "Newfoundland", "Persian", "Pomeranian",
        "Pug", "Ragdoll", "Russian Blue", "Saint Bernard", "Samoyed", "Scottish Terrier",
        "Shiba Inu", "Siamese", "Sphynx", "Staffordshire Bull Terrier", "Wheaten Terrier",
        "Yorkshire Terrier"
    >> @@
    Lit.pcam :> <<
        "lymph node", "lymph node containing metastatic tumor tissue"
    >> @@
    Lit.diabetic_retinopathy :> <<
        "no diabetic retinopathy", "mild diabetic retinopathy", "moderate diabetic retinopathy",
        "severe diabetic retinopathy", "proliferative diabetic retinopathy"
    >>

DEFAULT_ZEROSHOT_CLASSIFICATION_TEMPLATES ==
    zeroshot_classification_templates[Lit.imagenet1k]

\* the list with a kitti task the adapter selection does not support
VTAB_19TASKS_kitti ==
    <<Lit.vtab_ \o Lit.caltech101, Lit.vtab_ \o Lit.cifar100,
      Lit.vtab_ \o Lit.clevr_count_all,
      Lit.vtab_ \o Lit.clevr_closest_object_distance,
      Lit.vtab_ \o Lit.diabetic_retinopathy, Lit.vtab_ \o Lit.dmlab,
      Lit.vtab_ \o Lit.dsprites_label_orientation,
      Lit.vtab_ \o Lit.dsprites_label_x_position, Lit.vtab_ \o Lit.dtd,
      Lit.vtab_ \o Lit.eurosat,
      Lit.vtab_ \o Lit.kitti_ \o Lit.count_all,
      Lit.vtab_ \o Lit.flowers, Lit.vtab_ \o Lit.pets,
      Lit.vtab_ \o Lit.pcam, Lit.vtab_ \o Lit.resisc45,
      Lit.vtab_ \o Lit.smallnorb_label_azimuth,
      Lit.vtab_ \o Lit.smallnorb_label_elevation, Lit.sun397,
      Lit.vtab_ \o Lit.svhn>>
VTAB_19TASKS ==
    <<Lit.vtab_ \o Lit.caltech101, Lit.vtab_ \o Lit.cifar100,
      Lit.vtab_ \o Lit.clevr_count_all,
      Lit.vtab_ \o Lit.clevr_closest_object_distance,
      Lit.vtab_ \o Lit.diabetic_retinopathy, Lit.vtab_ \o Lit.dmlab,
      Lit.vtab_ \o Lit.dsprites_label_orientation,
      Lit.vtab_ \o Lit.dsprites_label_x_position, Lit.vtab_ \o Lit.dtd,
      Lit.vtab_ \o Lit.eurosat,
      Lit.vtab_ \o Lit.kitti_closest_vehicle_distance,
      Lit.vtab_ \o Lit.flowers, Lit.vtab_ \o Lit.pets,
      Lit.vtab_ \o Lit.pcam, Lit.vtab_ \o Lit.resisc45,
      Lit.vtab_ \o Lit.smallnorb_label_azimuth,
      Lit.vtab_ \o Lit.smallnorb_label_elevation, Lit.sun397,
      Lit.vtab_ \o Lit.svhn>>

(***************************************************************************)
(* Results of a call: a returned value or a raised exception.              *)
(***************************************************************************)
Returned(v) == [outcome |-> "returned", value |-> v]
Raised(type, msg) == [outcome |-> "raised", exc |-> [type |-> type, msg |-> msg]]

(***************************************************************************)
(* get_dataset_collate_fn                                                  *)
(***************************************************************************)
\* the tuple of caption datasets without flickr8k
get_dataset_collate_fn_two(dataset_name) ==
    IF dataset_name \in {Lit.mscoco_captions, Lit.flickr30k}
    THEN Returned("image_captions_collate_fn")
    ELSE Returned("default_collate")

get_dataset_collate_fn(dataset_name) ==
    IF dataset_name \in {Lit.mscoco_captions, Lit.flickr30k, Lit.flickr8k}
    THEN Returned("image_captions_collate_fn")
    ELSE Returned("default_collate")

(***************************************************************************)
(* image_captions_collate_fn                                               *)
(***************************************************************************)
Min(S) == CHOOSE m \in S : \A k \in S : m <= k

\* list(zip(*batch)): as many tuples as the shortest element of the batch has
\* components, the j-th one holding the j-th component of every element
zip_star(batch) ==
    IF batch = <<>>
    THEN <<>>
    ELSE [j \in 1..Min({Len(batch[i]) : i \in 1..Len(batch)}) |->
             [i \in 1..Len(batch) |-> batch[i][j]]]

\* torch's default_collate on a sequence of images: they are stacked in order
default_collate(images) == [stacked |-> images]

RECURSIVE concat(_)
concat(lists) == IF lists = <<>> THEN <<>> ELSE Head(lists) \o concat(Tail(lists))

\* the caption lists merged into one list
image_captions_collate_fn_merged(batch) ==
    LET transposed == zip_star(batch)
    IN  IF Len(transposed) < 2
        THEN Raised("IndexError", "list index out of range")
        ELSE Returned(<<default_collate(transposed[1]), concat(transposed[2])>>)

image_captions_collate_fn(batch) ==
    LET transposed == zip_star(batch)
    IN  IF Len(transposed) < 1
        THEN Raised("IndexError", "list index out of range")
        ELSE LET imgs == default_collate(transposed[1])
             IN  IF Len(transposed) < 2
                 THEN Raised("IndexError", "list index out of range")
                 ELSE LET texts == transposed[2]
                      IN  Returned(<<imgs, texts>>)

(***************************************************************************)
(* get_zeroshot_classification_templates                                   *)
(***************************************************************************)
\* the name that is looked up in the template table
template_name(dataset_name) ==
    IF startswith(dataset_name, Lit.tfds_) \/ startswith(dataset_name, Lit.vtab_)
    THEN LET segments == str_split(dataset_name, "/")
         IN  IF Len(segments) < 2
             THEN Raised("IndexError", "list index out of range")
             ELSE Returned(segments[2])
    ELSE Returned(dataset_name)

\* dict.get(name, default)
dict_get(table, name, default) ==
    IF name \in DOMAIN table THEN table[name] ELSE default

get_zeroshot_classification_templates(dataset_name) ==
    LET name == template_name(dataset_name)
    IN  IF name.outcome = "raised"
        THEN name
        ELSE Returned(dict_get(zeroshot_classification_templates, name.value,
                               DEFAULT_ZEROSHOT_CLASSIFICATION_TEMPLATES))

(***************************************************************************)
(* The world outside the module: the filesystem, the process and the       *)
(* dataset backends.  A call's effects on it are recorded, in order, as    *)
(* events.                                                                 *)
(***************************************************************************)
Out(evs, res) == [events |-> evs, result |-> res]

\* sys.exit(status)
Exit(status) == [outcome |-> "exit", status |-> status]

\* os.path.exists(path): os.stat raises TypeError on None, and only OSError and
\* ValueError are caught
os_path_exists(path, files) ==
    IF path = None
    THEN Raised("TypeError", "stat: path should be string, bytes, os.PathLike or integer, not NoneType")
    ELSE Returned(path.v \in files)

EvExists(path) == [ev |-> "os.path.exists", path |-> path]
EvPrint(msg) == [ev |-> "print", msg |-> msg]
EvExit(status) == [ev |-> "sys.exit", status |-> status]
EvConstruct(cls, args) == [ev |-> "construct", cls |-> cls, args |-> args]
EvCall(fn, args) == [ev |-> "call", fn |-> fn, args |-> args]
EvGetItem(index) == [ev |-> "getitem", index |-> index]

\* os.path.join(root, part), paths being sequences of components
os_path_join(root, part) == Append(root, part)

\* the list object stored under classnames[key]
\* every override taking the mnist list
ClassnamesRef_mnist(key) == [src |-> "classnames", key |-> Lit.mnist]
ClassnamesRef(key) == [src |-> "classnames", key |-> key]
\* the class list the backend built itself
BackendClasses == [src |-> "backend"]
\* list(map(lambda s: " ".join(s.split("_")), classes))
\* lambda s: " ".join(s.split("_"))
spaces_for_underscores(s) == str_join(" ", str_split(s, "_"))
\* only the first underscore of a name replaced
underscores_to_spaces_first(classes) ==
    [src |-> "underscores_to_spaces", of |-> BackendClasses,
     names |-> [i \in 1..Len(classes) |->
                   IF find(classes[i], "_") = 0 THEN classes[i]
                   ELSE [classes[i] EXCEPT ![find(classes[i], "_")] = " "]]]
\* a new list, built from the names of the backend's own list
underscores_to_spaces(classes) ==
    [src |-> "underscores_to_spaces", of |-> BackendClasses,
     names |-> [i \in 1..Len(classes) |-> spaces_for_underscores(classes[i])]]
\* builder.info.features[feature].names
FeatureNames(feature) == [src |-> "features", feature |-> feature]

\* the object a backend constructor returns: it keeps its arguments, and a
\* torchvision dataset keeps the target_transform it was given
new_object(cls, args, be) ==
    [cls |-> cls,
     args |-> args,
     classes |-> BackendClasses,
     target_transform |->
         IF "target_transform" \in DOMAIN args THEN args.target_transform ELSE "None",
     labels |-> be.labels]

\* a backend constructor call: it returns the object or raises its own error
ctor(cls, args, be) ==
    IF be.ctor_ok
    THEN Out(<<EvConstruct(cls, args)>>, Returned(new_object(cls, args, be)))
    ELSE Out(<<EvConstruct(cls, args)>>, Raised("BackendError", cls))

\* the override left out
set_classes_skipped(o, classes) == o

\* ds.classes = classnames[key] on the object a constructor call returned
set_classes(o, classes) ==
    IF o.result.outcome = "returned"
    THEN Out(o.events, Returned([o.result.value EXCEPT !.classes = classes]))
    ELSE o

\* the label functions that occur as target_transform
apply_target_transform(tt, y) ==
    CASE tt = "None" -> y
      [] tt = "lambda y:y-1" -> y - 1
      [] tt = "plus_one" -> y + 1
      [] tt = "minus_one" -> y - 1
      [] tt = "int" -> y

\* ds[index][1]: the label of a sample as the dataset hands it out
getitem_label(ds, index) == apply_target_transform(ds.target_transform, ds.labels[index + 1])

(***************************************************************************)
(* _extract_task                                                           *)
(***************************************************************************)
\* the task taken to be the second segment only
_extract_task_second(dataset_name) ==
    LET parts == str_split(dataset_name, "_")
    IN  IF Len(parts) > 1 THEN parts[2] ELSE <<>>
_extract_task(dataset_name) == str_join("_", Tail(str_split(dataset_name, "_")))

(***************************************************************************)
(* build_tfds_dataset                                                      *)
(***************************************************************************)
\* build_tfds_dataset preparing the data whatever the download flag
build_tfds_dataset_prepare(name, transform, download, split, data_dir, classes, be) ==
    LET gpus == <<EvCall("disable_gpus_on_tensorflow", <<>>)>>
        builder == ctor("tfds.builder", [name |-> name, data_dir |-> data_dir], be)
        prepare == <<EvCall("builder.download_and_prepare", <<>>)>>
        splits == be.splits
        args == [name |-> Lit.tfds_ \o name, root |-> data_dir, split |-> split,
                 transform |-> transform, target_transform |-> "int"]
    IN  IF builder.result.outcome # "returned"
        THEN Out(gpus \o builder.events, builder.result)
        ELSE IF split \notin splits
        THEN Out(gpus \o builder.events \o prepare,
                 Raised("AssertionError", <<split, splits>>))
        ELSE Out(gpus \o builder.events \o prepare
                     \o <<EvConstruct("timm.data.create_dataset", args)>>,
                 Returned([new_object("timm.data.create_dataset", args, be)
                              EXCEPT !.classes = IF classes = None
                                                 THEN FeatureNames(Lit.label)
                                                 ELSE classes]))

\* build_tfds_dataset without the assertion on the split
build_tfds_dataset_unchecked(name, transform, download, split, data_dir, classes, be) ==
    LET gpus == <<EvCall("disable_gpus_on_tensorflow", <<>>)>>
        builder == ctor("tfds.builder", [name |-> name, data_dir |-> data_dir], be)
        prepare == IF download
                   THEN <<EvCall("builder.download_and_prepare", <<>>)>>
                   ELSE <<>>
        args == [name |-> Lit.tfds_ \o name, root |-> data_dir, split |-> split,
                 transform |-> transform, target_transform |-> "int"]
    IN  IF builder.result.outcome # "returned"
        THEN Out(gpus \o builder.events, builder.result)
        ELSE Out(gpus \o builder.events \o prepare
                     \o <<EvConstruct("timm.data.create_dataset", args)>>,
                 Returned([new_object("timm.data.create_dataset", args, be)
                              EXCEPT !.classes = IF classes = None
                                                 THEN FeatureNames(Lit.label)
                                                 ELSE classes]))

build_tfds_dataset(name, transform, download, split, data_dir, classes, be) ==
    LET gpus == <<EvCall("disable_gpus_on_tensorflow", <<>>)>>
        builder == ctor("tfds.builder", [name |-> name, data_dir |-> data_dir], be)
        prepare == IF download
                   THEN <<EvCall("builder.download_and_prepare", <<>>)>>
                   ELSE <<>>
        splits == be.splits
        args == [name |-> Lit.tfds_ \o name, root |-> data_dir, split |-> split,
                 transform |-> transform, target_transform |-> "int"]
    IN  IF builder.result.outcome # "returned"
        THEN Out(gpus \o builder.events, builder.result)
        ELSE IF split \notin splits
        THEN Out(gpus \o builder.events \o prepare,
                 Raised("AssertionError", <<split, splits>>))
        ELSE Out(gpus \o builder.events \o prepare
                     \o <<EvConstruct("timm.data.create_dataset", args)>>,
                 Returned([new_object("timm.data.create_dataset", args, be)
                              EXCEPT !.classes = IF classes = None
                                                 THEN FeatureNames(Lit.label)
                                                 ELSE classes]))

(***************************************************************************)
(* build_vtab_dataset                                                      *)
(***************************************************************************)
\* every override of classes lost
Adapter_unset(cls, args, classes) ==
    [how |-> "adapter", cls |-> cls, args |-> args, classes |-> None, pre |-> <<>>]
\* what the if/elif chain over the name selects: the task_adaptation adapter
\* and its arguments, the classes override, the calls made before the adapter
\* is constructed and how the branch ends
Adapter(cls, args, classes) ==
    [how |-> "adapter", cls |-> cls, args |-> args, classes |-> classes, pre |-> <<>>]
\* a rejected task reported as an unsupported dataset
AssertAsUnsupported == [how |-> "unsupported_dataset"]
AssertFails == [how |-> "assert"]
TaskRejected(cls, args, msg) ==
    [how |-> "unsupported_task", cls |-> cls, args |-> args, msg |-> msg, pre |-> <<>>]
NameRejected == [how |-> "unsupported_dataset"]

CLEVR_TASKS == {Lit.count_all, Lit.closest_object_distance}
DSPRITES_TASKS ==
    {Lit.label_shape, Lit.label_scale, Lit.label_orientation,
     Lit.label_x_position, Lit.label_y_position}
KITTI_TASKS ==
    {Lit.count_all, Lit.count_left, Lit.count_far, Lit.count_near,
     Lit.closest_object_distance, Lit.closest_object_x_location,
     Lit.count_vehicles, Lit.closest_vehicle_distance}
SMALLNORB_TASKS ==
    {Lit.label_category, Lit.label_elevation, Lit.label_azimuth, Lit.label_lighting}

vtab_select(dataset_name, data_dir) ==
    LET dd == [data_dir |-> data_dir]
        task == _extract_task(dataset_name)
    IN
    IF dataset_name = Lit.caltech101
    THEN Adapter("task_adaptation.data.caltech.Caltech101", dd,
                 ClassnamesRef(Lit.caltech101_vtab))
    ELSE IF dataset_name = Lit.cars
    THEN Adapter("task_adaptation.data.cars.CarsData", dd, None)
    ELSE IF dataset_name \in {Lit.cifar10, Lit.cifar100}
    THEN Adapter("task_adaptation.data.cifar.CifarData",
                 [data_dir |-> data_dir,
                  num_classes |-> IF dataset_name = Lit.cifar10 THEN 10 ELSE 100],
                 None)
    ELSE IF startswith(dataset_name, Lit.clevr_)
    THEN IF task \notin CLEVR_TASKS
         THEN AssertFails
         ELSE IF task = Lit.count_all
         THEN Adapter("task_adaptation.data.clevr.CLEVRData",
                      [task |-> task, data_dir |-> data_dir],
                      ClassnamesRef(Lit.clevr_count_all))
         ELSE IF task = Lit.closest_object_distance
         THEN Adapter("task_adaptation.data.clevr.CLEVRData",
                      [task |-> task, data_dir |-> data_dir],
                      ClassnamesRef(Lit.clevr_closest_object_distance))
         ELSE TaskRejected("task_adaptation.data.clevr.CLEVRData",
                           [task |-> task, data_dir |-> data_dir],
                           <<"non supported: ", task>>)
    ELSE IF dataset_name = Lit.cub
    THEN Adapter("task_adaptation.data.cub.CUB2011Data", dd, None)
    ELSE IF dataset_name = Lit.diabetic_retinopathy
    THEN Adapter("task_adaptation.data.diabetic_retinopathy.RetinopathyData",
                 [config |-> "btgraham-300", data_dir |-> data_dir],
                 ClassnamesRef(Lit.diabetic_retinopathy))
    ELSE IF dataset_name = Lit.dmlab
    THEN [Adapter("task_adaptation.data.dmlab.DmlabData", dd, ClassnamesRef(Lit.dmlab))
             EXCEPT !.pre = <<EvCall("download_tfds_dataset",
                                     [name |-> Lit.dmlab, data_dir |-> data_dir])>>]
    ELSE IF startswith(dataset_name, Lit.dsprites_)
    THEN IF task \notin DSPRITES_TASKS
         THEN AssertFails
         ELSE Adapter("task_adaptation.data.dsprites.DSpritesData",
                      [arg0 |-> task, data_dir |-> data_dir], None)
    ELSE IF dataset_name = Lit.dtd
    THEN Adapter("task_adaptation.data.dtd.DTDData", dd, None)
    ELSE IF dataset_name = Lit.eurosat
    THEN Adapter("task_adaptation.data.eurosat.EurosatData",
                 [subset |-> "rgb", data_key |-> "image", data_dir |-> data_dir],
                 ClassnamesRef(Lit.eurosat))
    ELSE IF dataset_name = Lit.food101
    THEN Adapter("task_adaptation.data.food101.Food101Data", dd, None)
    ELSE IF dataset_name = Lit.inaturalist
    THEN Adapter("task_adaptation.data.inaturalist.INaturalistData",
                 [data_dir |-> data_dir, year |-> 2017], None)
    ELSE IF startswith(dataset_name, Lit.kitti_)
    THEN IF task \notin KITTI_TASKS
         THEN AssertFails
         ELSE IF task = Lit.closest_vehicle_distance
         THEN Adapter("kitti.KittiData", [task |-> task, data_dir |-> data_dir],
                      ClassnamesRef(Lit.kitti_closest_vehicle_distance))
         ELSE TaskRejected("kitti.KittiData", [task |-> task, data_dir |-> data_dir],
                           <<"Unsupported task: ", task>>)
    ELSE IF dataset_name = Lit.flowers
    THEN Adapter("task_adaptation.data.oxford_flowers102.OxfordFlowers102Data", dd, None)
    ELSE IF dataset_name = Lit.pets
    THEN Adapter("task_adaptation.data.oxford_iiit_pet.OxfordIIITPetData", dd,
                 ClassnamesRef(Lit.pets))
    ELSE IF dataset_name = Lit.pcam
    THEN Adapter("task_adaptation.data.patch_camelyon.PatchCamelyonData", dd,
                 ClassnamesRef(Lit.pcam))
    ELSE IF dataset_name = Lit.resisc45
    THEN Adapter("task_adaptation.data.resisc45.Resisc45Data", dd, None)
    ELSE IF startswith(dataset_name, Lit.smallnorb_)
    THEN IF task \notin SMALLNORB_TASKS
         THEN AssertFails
         ELSE Adapter("task_adaptation.data.smallnorb.SmallNORBData",
                      [predicted_attribute |-> task, data_dir |-> data_dir],
                      FeatureNames(task))
    ELSE IF dataset_name = Lit.sun397
    THEN Adapter("task_adaptation.data.sun397.Sun397Data",
                 [config |-> "tfds", data_dir |-> data_dir], None)
    ELSE IF dataset_name = Lit.svhn
    THEN Adapter("task_adaptation.data.svhn.SvhnData", dd, ClassnamesRef(Lit.svhn))
    ELSE NameRejected

build_vtab_dataset(dataset_name, transform, download, split, data_dir, be) ==
    LET gpus == <<EvCall("disable_gpus_on_tensorflow", <<>>)>>
        sel == vtab_select(dataset_name, data_dir)
    IN  IF sel.how = "unsupported_dataset"
        THEN Out(gpus, Raised("ValueError", <<"Unsupported dataset: ", dataset_name>>))
        ELSE IF sel.how = "assert"
        THEN Out(gpus, Raised("AssertionError", <<>>))
        ELSE LET tfds_dataset == ctor(sel.cls, sel.args, be)
                 args == [tfds_dataset |-> [cls |-> sel.cls, args |-> sel.args],
                          input_name |-> "image", label_name |-> "label",
                          transform |-> transform, target_transform |-> "int",
                          split |-> split, classes |-> sel.classes]
             IN  IF tfds_dataset.result.outcome # "returned"
                 THEN Out(gpus \o sel.pre \o tfds_dataset.events, tfds_dataset.result)
                 ELSE IF sel.how = "unsupported_task"
                 THEN Out(gpus \o sel.pre \o tfds_dataset.events,
                          Raised("ValueError", sel.msg))
                 ELSE Out(gpus \o sel.pre \o tfds_dataset.events
                              \o <<EvConstruct("VTABIterableDataset", args)>>,
                          Returned([new_object("VTABIterableDataset", args, be)
                                       EXCEPT !.classes = args.classes]))

(***************************************************************************)
(* build_dataset                                                           *)
(***************************************************************************)
MSG_COCO ==
    "You need to download this dataset manually. Please download the dataset from https://cocodataset.org/"
MSG_FLICKR30K ==
    "You need to download this dataset manually. Please download the dataset from https://www.kaggle.com/datasets/adityajn105/flickr30k"
MSG_FLICKR8K ==
    "You need to download this dataset manually. Please download the dataset from https://www.kaggle.com/datasets/adityajn105/flickr8k"
MSG_FER2013 ==
    "You need to download this dataset manually. Please download the dataset from https://www.kaggle.com/datasets/msambare/fer2013"

\* the two splits exchanged
train_or_swapped(train, other) == IF train THEN other ELSE "train"
\* "train" if train else other
train_or(train, other) == IF train THEN "train" ELSE other

\* the gate of the flickr identifiers where the one of mscoco_captions is meant
coco_captions_exit(root, transform, annotation_file, kwargs, files, be) ==
    LET probe == os_path_exists(annotation_file, files)
        made == ctor("CocoCaptions",
                     [root |-> root, annFile |-> annotation_file,
                      transform |-> transform] @@ kwargs, be)
    IN  IF probe.outcome = "raised"
        THEN Out(<<EvExists(annotation_file)>>, probe)
        ELSE IF ~probe.value
        THEN Out(<<EvExists(annotation_file), EvPrint(MSG_COCO), EvExit(1)>>, Exit(1))
        ELSE Out(<<EvExists(annotation_file)>> \o made.events, made.result)

\* mscoco_captions: if not os.path.exists(annotation_file): print(...); then construct
coco_captions(root, transform, annotation_file, kwargs, files, be) ==
    LET probe == os_path_exists(annotation_file, files)
        made == ctor("CocoCaptions",
                     [root |-> root, annFile |-> annotation_file,
                      transform |-> transform] @@ kwargs, be)
    IN  IF probe.outcome = "raised"
        THEN Out(<<EvExists(annotation_file)>>, probe)
        ELSE IF ~probe.value
        THEN Out(<<EvExists(annotation_file), EvPrint(MSG_COCO)>> \o made.events,
                 made.result)
        ELSE Out(<<EvExists(annotation_file)>> \o made.events, made.result)

\* the gate of mscoco_captions where the one of the flickr identifiers is meant
flickr_captions_warn(msg, root, transform, annotation_file, kwargs, files, be) ==
    LET probe == os_path_exists(annotation_file, files)
        made == ctor("flickr.Flickr",
                     [root |-> root, ann_file |-> annotation_file,
                      transform |-> transform] @@ kwargs, be)
    IN  IF probe.outcome = "raised"
        THEN Out(<<EvExists(annotation_file)>>, probe)
        ELSE IF ~probe.value
        THEN Out(<<EvExists(annotation_file), EvPrint(msg)>> \o made.events, made.result)
        ELSE Out(<<EvExists(annotation_file)>> \o made.events, made.result)

\* flickr30k, flickr8k: if not os.path.exists(annotation_file): print(...); sys.exit(1)
flickr_captions(msg, root, transform, annotation_file, kwargs, files, be) ==
    LET probe == os_path_exists(annotation_file, files)
        made == ctor("flickr.Flickr",
                     [root |-> root, ann_file |-> annotation_file,
                      transform |-> transform] @@ kwargs, be)
    IN  IF probe.outcome = "raised"
        THEN Out(<<EvExists(annotation_file)>>, probe)
        ELSE IF ~probe.value
        THEN Out(<<EvExists(annotation_file), EvPrint(msg), EvExit(1)>>, Exit(1))
        ELSE Out(<<EvExists(annotation_file)>> \o made.events, made.result)

\* the decrement installed whatever the first sample's label is
flowers102_always(root, train, transform, download, kwargs, be) ==
    LET made == ctor("Flowers102",
                     [root |-> root, split |-> train_or(train, "test"),
                      transform |-> transform, download |-> download] @@ kwargs, be)
    IN  IF made.result.outcome # "returned"
        THEN made
        ELSE Out(made.events \o <<EvGetItem(0)>>,
                 Returned([made.result.value
                              EXCEPT !.target_transform = "lambda y:y-1",
                                     !.classes = ClassnamesRef(Lit.flowers)]))

\* flowers: the first sample's label is read, and a decrement installed if it is 1
flowers102(root, train, transform, download, kwargs, be) ==
    LET made == ctor("Flowers102",
                     [root |-> root, split |-> train_or(train, "test"),
                      transform |-> transform, download |-> download] @@ kwargs, be)
        ds == made.result.value
        fixed == IF getitem_label(ds, 0) = 1
                 THEN [ds EXCEPT !.target_transform = "lambda y:y-1"]
                 ELSE ds
    IN  IF made.result.outcome # "returned"
        THEN made
        ELSE Out(made.events \o <<EvGetItem(0)>>,
                 Returned([fixed EXCEPT !.classes = ClassnamesRef(Lit.flowers)]))

\* fer2013: the root is redirected and probed, then ImageFolder is constructed
\* fer2013 probing and opening <root>/test whatever the split
fer2013_folder_test(root, train, transform, files, be) ==
    LET root2 == os_path_join(root, "test")
        probe == os_path_exists(Str(root2), files)
        made == set_classes(ctor("ImageFolder",
                                 [root |-> root2, transform |-> transform], be),
                            ClassnamesRef(Lit.fer2013))
    IN  IF ~probe.value
        THEN Out(<<EvExists(Str(root2)), EvPrint(MSG_FER2013)>> \o made.events,
                 made.result)
        ELSE Out(<<EvExists(Str(root2))>> \o made.events, made.result)

fer2013_folder(root, train, transform, files, be) ==
    LET root2 == os_path_join(root, train_or(train, "test"))
        probe == os_path_exists(Str(root2), files)
        made == set_classes(ctor("ImageFolder",
                                 [root |-> root2, transform |-> transform], be),
                            ClassnamesRef(Lit.fer2013))
    IN  IF ~probe.value
        THEN Out(<<EvExists(Str(root2)), EvPrint(MSG_FER2013)>> \o made.events,
                 made.result)
        ELSE Out(<<EvExists(Str(root2))>> \o made.events, made.result)

\* the name taken to be the second segment only
namespace_name_second(dataset_name) == str_split(dataset_name, "/")[2]
\* prefix, *name_list = dataset_name.split("/"); name = "/".join(name_list)
namespace_name(dataset_name) == str_join("/", Tail(str_split(dataset_name, "/")))
namespace_prefix(dataset_name) == Head(str_split(dataset_name, "/"))

\* a call of one of this module's builders, followed by what the builder does
delegate(fn, args, o) == Out(<<EvCall(fn, args)>> \o o.events, o.result)

\* build_dataset with the split passed to the EuroSAT backend as well
build_dataset_eurosat_split(dataset_name, root, transform, split, download, annotation_file, kwargs, files, be) ==
    LET train == (split = "train")
        \* root, split, transform, download and the extra options
        std(other) == [root |-> root, split |-> train_or(train, other),
                       transform |-> transform, download |-> download] @@ kwargs
        name == namespace_name(dataset_name)
    IN
    IF dataset_name = Lit.cifar10
    THEN ctor("CIFAR10", [root |-> root, train |-> train, transform |-> transform,
                          download |-> download] @@ kwargs, be)
    ELSE IF dataset_name = Lit.cifar100
    THEN ctor("CIFAR100", [root |-> root, train |-> train, transform |-> transform,
                           download |-> download] @@ kwargs, be)
    ELSE IF dataset_name = Lit.imagenet1k
    THEN set_classes(ctor("ImageNet",
                          [root |-> root, split |-> train_or(train, "val"),
                           transform |-> transform] @@ kwargs, be),
                     ClassnamesRef(Lit.imagenet1k))
    ELSE IF dataset_name = Lit.voc2007
    THEN ctor("voc2007.PASCALVoc2007",
              [root |-> root, set |-> train_or(train, "test"),
               transform |-> transform, download |-> download] @@ kwargs, be)
    ELSE IF dataset_name = Lit.mscoco_captions
    THEN coco_captions(root, transform, annotation_file, kwargs, files, be)
    ELSE IF dataset_name = Lit.flickr30k
    THEN flickr_captions(MSG_FLICKR30K, root, transform, annotation_file, kwargs,
                         files, be)
    ELSE IF dataset_name = Lit.flickr8k
    THEN flickr_captions(MSG_FLICKR8K, root, transform, annotation_file, kwargs,
                         files, be)
    ELSE IF dataset_name = Lit.food101
    THEN set_classes(ctor("Food101", std("test"), be), underscores_to_spaces(be.classes))
    ELSE IF dataset_name = Lit.sun397
    THEN set_classes(ctor("SUN397", [root |-> root, transform |-> transform,
                                     download |-> download] @@ kwargs, be),
                     underscores_to_spaces(be.classes))
    ELSE IF dataset_name = Lit.cars
    THEN ctor("StanfordCars", std("test"), be)
    ELSE IF dataset_name = Lit.fgvc_aircraft
    THEN ctor("FGVCAircraft", [annotation_level |-> "variant"] @@ std("test"), be)
    ELSE IF dataset_name = Lit.dtd
    THEN ctor("DTD", std("test"), be)
    ELSE IF dataset_name = Lit.pets
    THEN ctor("OxfordIIITPet", [target_types |-> "category"] @@ std("test"), be)
    ELSE IF dataset_name = Lit.caltech101
    THEN set_classes(ctor("caltech101.Caltech101",
                          [root |-> root, target_type |-> "category",
                           transform |-> transform, download |-> download] @@ kwargs,
                          be),
                     ClassnamesRef(Lit.caltech101))
    ELSE IF dataset_name = Lit.flowers
    THEN flowers102(root, train, transform, download, kwargs, be)
    ELSE IF dataset_name = Lit.mnist
    THEN set_classes(ctor("MNIST", [root |-> root, train |-> train,
                                    transform |-> transform,
                                    download |-> download] @@ kwargs, be),
                     ClassnamesRef(Lit.mnist))
    ELSE IF dataset_name = Lit.stl10
    THEN ctor("STL10", std("test"), be)
    ELSE IF dataset_name = Lit.eurosat
    THEN set_classes(ctor("EuroSAT", std("test"), be),
                     ClassnamesRef(Lit.eurosat))
    ELSE IF dataset_name = Lit.gtsrb
    THEN set_classes(ctor("GTSRB", std("test"), be), ClassnamesRef(Lit.gtsrb))
    ELSE IF dataset_name = Lit.country211
    THEN set_classes(ctor("Country211", std("test"), be), ClassnamesRef(Lit.country211))
    ELSE IF dataset_name = Lit.pcam
    THEN set_classes(ctor("PCAM", std("test"), be), ClassnamesRef(Lit.pcam))
    ELSE IF dataset_name = Lit.renderedsst2
    THEN ctor("RenderedSST2", std("test"), be)
    ELSE IF dataset_name = Lit.fer2013
    THEN fer2013_folder(root, train, transform, files, be)
    ELSE IF startswith(dataset_name, Lit.tfds_)
    THEN delegate("build_tfds_dataset",
                  [name |-> name, download |-> download, split |-> split,
                   data_dir |-> root, transform |-> transform],
                  build_tfds_dataset(name, transform, download, split, root, None, be))
    ELSE IF startswith(dataset_name, Lit.vtab_)
    THEN delegate("build_vtab_dataset",
                  [name |-> name, download |-> download, split |-> split,
                   data_dir |-> root, transform |-> transform],
                  build_vtab_dataset(name, transform, download, split, root, be))
    ELSE Out(<<>>, Raised("ValueError", <<"Unsupported dataset: ", dataset_name, ".">>))

build_dataset(dataset_name, root, transform, split, download, annotation_file, kwargs, files, be) ==
    LET train == (split = "train")
        \* root, split, transform, download and the extra options
        std(other) == [root |-> root, split |-> train_or(train, other),
                       transform |-> transform, download |-> download] @@ kwargs
        name == namespace_name(dataset_name)
    IN
    IF dataset_name = Lit.cifar10
    THEN ctor("CIFAR10", [root |-> root, train |-> train, transform |-> transform,
                          download |-> download] @@ kwargs, be)
    ELSE IF dataset_name = Lit.cifar100
    THEN ctor("CIFAR100", [root |-> root, train |-> train, transform |-> transform,
                           download |-> download] @@ kwargs, be)
    ELSE IF dataset_name = Lit.imagenet1k
    THEN set_classes(ctor("ImageNet",
                          [root |-> root, split |-> train_or(train, "val"),
                           transform |-> transform] @@ kwargs, be),
                     ClassnamesRef(Lit.imagenet1k))
    ELSE IF dataset_name = Lit.voc2007
    THEN ctor("voc2007.PASCALVoc2007",
              [root |-> root, set |-> train_or(train, "test"),
               transform |-> transform, download |-> download] @@ kwargs, be)
    ELSE IF dataset_name = Lit.mscoco_captions
    THEN coco_captions(root, transform, annotation_file, kwargs, files, be)
    ELSE IF dataset_name = Lit.flickr30k
    THEN flickr_captions(MSG_FLICKR30K, root, transform, annotation_file, kwargs,
                         files, be)
    ELSE IF dataset_name = Lit.flickr8k
    THEN flickr_captions(MSG_FLICKR8K, root, transform, annotation_file, kwargs,
                         files, be)
    ELSE IF dataset_name = Lit.food101
    THEN set_classes(ctor("Food101", std("test"), be), underscores_to_spaces(be.classes))
    ELSE IF dataset_name = Lit.sun397
    THEN set_classes(ctor("SUN397", [root |-> root, transform |-> transform,
                                     download |-> download] @@ kwargs, be),
                     underscores_to_spaces(be.classes))
    ELSE IF dataset_name = Lit.cars
    THEN ctor("StanfordCars", std("test"), be)
    ELSE IF dataset_name = Lit.fgvc_aircraft
    THEN ctor("FGVCAircraft", [annotation_level |-> "variant"] @@ std("test"), be)
    ELSE IF dataset_name = Lit.dtd
    THEN ctor("DTD", std("test"), be)
    ELSE IF dataset_name = Lit.pets
    THEN ctor("OxfordIIITPet", [target_types |-> "category"] @@ std("test"), be)
    ELSE IF dataset_name = Lit.caltech101
    THEN set_classes(ctor("caltech101.Caltech101",
                          [root |-> root, target_type |-> "category",
                           transform |-> transform, download |-> download] @@ kwargs,
                          be),
                     ClassnamesRef(Lit.caltech101))
    ELSE IF dataset_name = Lit.flowers
    THEN flowers102(root, train, transform, download, kwargs, be)
    ELSE IF dataset_name = Lit.mnist
    THEN set_classes(ctor("MNIST", [root |-> root, train |-> train,
                                    transform |-> transform,
                                    download |-> download] @@ kwargs, be),
                     ClassnamesRef(Lit.mnist))
    ELSE IF dataset_name = Lit.stl10
    THEN ctor("STL10", std("test"), be)
    ELSE IF dataset_name = Lit.eurosat
    THEN set_classes(ctor("EuroSAT", [root |-> root, transform |-> transform,
                                      download |-> download] @@ kwargs, be),
                     ClassnamesRef(Lit.eurosat))
    ELSE IF dataset_name = Lit.gtsrb
    THEN set_classes(ctor("GTSRB", std("test"), be), ClassnamesRef(Lit.gtsrb))
    ELSE IF dataset_name = Lit.country211
    THEN set_classes(ctor("Country211", std("test"), be), ClassnamesRef(Lit.country211))
    ELSE IF dataset_name = Lit.pcam
    THEN set_classes(ctor("PCAM", std("test"), be), ClassnamesRef(Lit.pcam))
    ELSE IF dataset_name = Lit.renderedsst2
    THEN ctor("RenderedSST2", std("test"), be)
    ELSE IF dataset_name = Lit.fer2013
    THEN fer2013_folder(root, train, transform, files, be)
    ELSE IF startswith(dataset_name, Lit.tfds_)
    THEN delegate("build_tfds_dataset",
                  [name |-> name, download |-> download, split |-> split,
                   data_dir |-> root, transform |-> transform],
                  build_tfds_dataset(name, transform, download, split, root, None, be))
    ELSE IF startswith(dataset_name, Lit.vtab_)
    THEN delegate("build_vtab_dataset",
                  [name |-> name, download |-> download, split |-> split,
                   data_dir |-> root, transform |-> transform],
                  build_vtab_dataset(name, transform, download, split, root, be))
    ELSE Out(<<>>, Raised("ValueError", <<"Unsupported dataset: ", dataset_name, ".">>))

(***************************************************************************)
(* Inputs.                                                                 *)
(***************************************************************************)
Alphabet == {"x", "/", "_"}
FreeStrings == UNION {[1..n -> Alphabet] : n \in 0..MaxLen}
LitStrings == {Lit[f] : f \in DOMAIN Lit}
Namespaces == {<<>>, Lit.tfds_, Lit.vtab_}

\* identifiers: up to two namespace prefixes, a literal of the source or
\* nothing, and a free-form tail
Identifiers ==
    {p \o q \o b \o s : p \in Namespaces, q \in Namespaces,
                        b \in LitStrings \cup {<<>>}, s \in FreeStrings}

DirectIdentifiers ==
    {Lit.cifar10, Lit.cifar100, Lit.imagenet1k, Lit.voc2007, Lit.mscoco_captions,
     Lit.flickr30k, Lit.flickr8k, Lit.food101, Lit.sun397, Lit.cars,
     Lit.fgvc_aircraft, Lit.dtd, Lit.pets, Lit.caltech101, Lit.flowers, Lit.mnist,
     Lit.stl10, Lit.eurosat, Lit.gtsrb, Lit.country211, Lit.pcam, Lit.renderedsst2,
     Lit.fer2013}
VtabNames ==
    {Lit.caltech101, Lit.cars, Lit.cifar10, Lit.cifar100, Lit.cub,
     Lit.diabetic_retinopathy, Lit.dmlab, Lit.dtd, Lit.eurosat, Lit.food101,
     Lit.inaturalist, Lit.flowers, Lit.pets, Lit.pcam, Lit.resisc45, Lit.sun397,
     Lit.svhn}
TaskBases == {Lit.clevr_, Lit.dsprites_, Lit.kitti_, Lit.smallnorb_}
Tasks == CLEVR_TASKS \cup DSPRITES_TASKS \cup KITTI_TASKS \cup SMALLNORB_TASKS
TaskNames == {b \o t : b \in TaskBases, t \in Tasks}

\* identifiers that are resolved under every combination of the other arguments
CoreIdentifiers ==
    DirectIdentifiers
    \cup {Lit.vtab_ \o n : n \in VtabNames \cup TaskNames}
    \cup {Lit.tfds_ \o n : n \in {Lit.cifar10, Lit.clevr_ \o Lit.count_all}}

Splits == {"train", "test", "val", "validation", ""}
Transforms == {"None", "preprocess"}
Root == <<"root">>
AnnPath == <<"annotations", "captions.json">>
AnnotationFiles == {None, Str(AnnPath)}
KwargsSet == {<<>>, [target_transform |-> "plus_one"], [target_transform |-> "minus_one"]}
FsPaths == {AnnPath, os_path_join(Root, "train"), os_path_join(Root, "test")}
SplitSets == {{"train", "test"}, {"train", "validation"}}
LabelSeqs == UNION {[1..n -> 0..NumClasses] : n \in 1..MaxSamples}

Images == {"img1", "img2"}
CaptionLists == {<<>>, <<"a">>, <<"c">>, <<"a", "b">>}
Samples == {<<i, c>> : i \in Images, c \in CaptionLists}
Batches == UNION {[1..n -> Samples] : n \in 0..MaxSamples}

\* the class names a backend built for itself
NativeAlphabet == {"a", "_"}
NativeNames == UNION {[1..n -> NativeAlphabet] : n \in 0..MaxNameLen}
NativeClassLists ==
    UNION {[1..n -> NativeNames] : n \in 0..NumClasses}
    \cup {<< <<"a", " ", "_", "a">>, <<"_", " ", "_">> >>}
DefaultNative == << <<"a", "_", "a">> >>

NoBackend ==
    [ctor_ok |-> TRUE, labels |-> <<0>>, splits |-> {"train", "test"},
     classes |-> DefaultNative]
NoResult == [outcome |-> "pending"]

LookupRequests ==
    {[op |-> "get_zeroshot_classification_templates", dataset_name |-> d] :
        d \in Identifiers}
    \cup {[op |-> "get_zeroshot_classification_templates", dataset_name |-> VTAB_19TASKS[i]] :
            i \in DOMAIN VTAB_19TASKS}
    \cup {[op |-> "get_dataset_collate_fn", dataset_name |-> d] : d \in Identifiers}
    \cup {[op |-> "image_captions_collate_fn", batch |-> b] : b \in Batches}
    \cup {[op |-> "_extract_task", dataset_name |-> d] : d \in Identifiers \cup TaskNames}

\* build_dataset(dataset_name, root="root", transform=None, split="test",
\*               download=True, annotation_file=None, **kwargs)
BuildRequest(d, tr, sp, dl, ann, kw) ==
    [op |-> "build_dataset", dataset_name |-> d, root |-> Root, transform |-> tr,
     split |-> sp, download |-> dl, annotation_file |-> ann, kwargs |-> kw]

BuildRequests ==
    {BuildRequest(d, tr, sp, dl, ann, kw) :
        d \in CoreIdentifiers, tr \in Transforms, sp \in Splits, dl \in BOOLEAN,
        ann \in AnnotationFiles, kw \in KwargsSet}
    \cup {BuildRequest(d, "None", "test", TRUE, None, <<>>) : d \in Identifiers}
    \cup {BuildRequest(VTAB_19TASKS[i], "None", "test", TRUE, None, <<>>) :
            i \in DOMAIN VTAB_19TASKS}

\* the files that may exist when d is resolved
FilesFor(d) ==
    IF d \in {Lit.mscoco_captions, Lit.flickr30k, Lit.flickr8k, Lit.fer2013}
    THEN SUBSET FsPaths
    ELSE {{}}

\* what the backends may do when d is resolved
BackendsFor(d) ==
    {[ctor_ok |-> ok, labels |-> l, splits |-> s, classes |-> DefaultNative] :
        ok \in BOOLEAN,
        l \in IF d = Lit.flowers THEN LabelSeqs ELSE {<<0>>},
        s \in IF startswith(d, Lit.tfds_) THEN SplitSets ELSE {{"train", "test"}}}

\* the class lists the backend may have built when food101 or sun397 is
\* resolved with the default arguments
NativeBackendsFor(r) ==
    IF r \in {BuildRequest(d, "None", "test", TRUE, None, <<>>) :
                 d \in {Lit.food101, Lit.sun397}}
    THEN {[NoBackend EXCEPT !.classes = c] : c \in NativeClassLists}
    ELSE {}

(***************************************************************************)
(* The lists of the classnames table are objects of the process: the       *)
(* assignment ds.classes = classnames[key] hands out the list itself, not  *)
(* a copy.  appended[key] is what has been appended to the list            *)
(* classnames[key] since the module was loaded; handles are the handles a  *)
(* caller keeps from its calls, each with what was appended to a list that *)
(* belongs to that handle alone.                                           *)
(***************************************************************************)
NothingAppended == [key \in DOMAIN classnames |-> <<>>]

\* the entries of the list a classes attribute refers to; a list built for
\* one handle is given by what was appended to it
list_contents(ref, own, app) ==
    IF ref.src = "classnames" THEN classnames[ref.key] \o app[ref.key] ELSE own

(***************************************************************************)
(* The state machine: one call of the module's API per behaviour.          *)
(***************************************************************************)
Init ==
    /\ request \in LookupRequests \cup BuildRequests
    /\ fs \in IF request.op = "build_dataset" THEN FilesFor(request.dataset_name) ELSE {{}}
    /\ backend \in IF request.op = "build_dataset"
                   THEN BackendsFor(request.dataset_name) \cup NativeBackendsFor(request)
                   ELSE {NoBackend}
    /\ pc = "ready"
    /\ events = <<>>
    /\ result = NoResult
    /\ appended = NothingAppended
    /\ handles = <<>>

BuildDataset ==
    /\ pc = "ready"
    /\ request.op = "build_dataset"
    /\ LET o == build_dataset(request.dataset_name, request.root, request.transform,
                              request.split, request.download,
                              request.annotation_file, request.kwargs, fs, backend)
       IN  /\ events' = o.events
           /\ result' = o.result
           /\ pc' = IF o.result.outcome = "exit" THEN "exited" ELSE "done"
    /\ UNCHANGED <<request, fs, backend, appended, handles>>

GetDatasetCollateFn ==
    /\ pc = "ready"
    /\ request.op = "get_dataset_collate_fn"
    /\ result' = get_dataset_collate_fn(request.dataset_name)
    /\ pc' = "done"
    /\ UNCHANGED <<request, fs, backend, events, appended, handles>>

ImageCaptionsCollateFn ==
    /\ pc = "ready"
    /\ request.op = "image_captions_collate_fn"
    /\ result' = image_captions_collate_fn(request.batch)
    /\ pc' = "done"
    /\ UNCHANGED <<request, fs, backend, events, appended, handles>>

GetZeroshotClassificationTemplates ==
    /\ pc = "ready"
    /\ request.op = "get_zeroshot_classification_templates"
    /\ result' = get_zeroshot_classification_templates(request.dataset_name)
    /\ pc' = "done"
    /\ UNCHANGED <<request, fs, backend, events, appended, handles>>

ExtractTask ==
    /\ pc = "ready"
    /\ request.op = "_extract_task"
    /\ result' = Returned(_extract_task(request.dataset_name))
    /\ pc' = "done"
    /\ UNCHANGED <<request, fs, backend, events, appended, handles>>

Next ==
    \/ BuildDataset
    \/ ExtractTask
    \/ GetDatasetCollateFn
    \/ ImageCaptionsCollateFn
    \/ GetZeroshotClassificationTemplates

Spec == Init /\ [][Next]_vars

(***************************************************************************)
(* Several calls of build_dataset in one process, by a caller that keeps   *)
(* the handles and appends to their classes lists.                         *)
(***************************************************************************)
SharedIdentifiers == {Lit.eurosat, Lit.mnist, Lit.pets, Lit.food101}
Items == {"x", "y"}

InitShared ==
    /\ request = [op |-> "none"]
    /\ fs = {}
    /\ backend = NoBackend
    /\ pc = "ready"
    /\ events = <<>>
    /\ result = NoResult
    /\ appended = NothingAppended
    /\ handles = <<>>

\* ds = build_dataset(d): the caller keeps the handle; seen is the content of
\* ds.classes at the return
CallBuildDataset ==
    /\ Len(handles) < MaxCalls
    /\ \E d \in SharedIdentifiers :
          LET req == BuildRequest(d, "None", "test", TRUE, None, <<>>)
              o == build_dataset(req.dataset_name, req.root, req.transform, req.split,
                                 req.download, req.annotation_file, req.kwargs,
                                 fs, backend)
          IN  /\ request' = req
              /\ events' = o.events
              /\ result' = o.result
              /\ pc' = "done"
              /\ handles' =
                    IF o.result.outcome = "returned"
                    THEN Append(handles,
                                [ds |-> o.result.value,
                                 own |-> <<>>,
                                 edited |-> FALSE,
                                 seen |-> list_contents(o.result.value.classes,
                                                        <<>>, appended)])
                    ELSE handles
    /\ UNCHANGED <<fs, backend, appended>>

\* handles[i].ds.classes.append(item), by the caller
AppendToClasses ==
    /\ \E i \in DOMAIN handles, item \in Items :
          LET ref == handles[i].ds.classes
          IN  IF ref.src = "classnames"
              THEN /\ Len(appended[ref.key]) < MaxEdits
                   /\ appended' = [appended EXCEPT ![ref.key] = Append(@, item)]
                   /\ handles' = [handles EXCEPT ![i].edited = TRUE]
              ELSE /\ Len(handles[i].own) < MaxEdits
                   /\ handles' = [handles EXCEPT ![i].own = Append(@, item),
                                                 ![i].edited = TRUE]
                   /\ appended' = appended
    /\ UNCHANGED <<request, fs, backend, pc, events, result>>

NextShared ==
    \/ CallBuildDataset
    \/ AppendToClasses

SpecShared == InitShared /\ [][NextShared]_vars


(***************************************************************************)
(* Vocabulary of the properties.  The properties state prefixes and        *)
(* suffixes of identifiers in their own terms, not through the operators   *)
(* that model the code.                                                    *)
(***************************************************************************)
BeginsWith(s, p) == Len(s) >= Len(p) /\ \A i \in 1..Len(p) : s[i] = p[i]
Drop(s, n) == [i \in 1..(Len(s) - n) |-> s[i + n]]
Namespaced(d) == BeginsWith(d, Lit.tfds_) \/ BeginsWith(d, Lit.vtab_)

BuildDone == request.op = "build_dataset" /\ pc # "ready"
Constructions == {i \in 1..Len(events) : events[i].ev = "construct"}
Probes == {i \in 1..Len(events) : events[i].ev = "os.path.exists"}
Prints == {i \in 1..Len(events) : events[i].ev = "print"}
ExitCalls == {i \in 1..Len(events) : events[i].ev = "sys.exit"}
RaisedError(type) == result.outcome = "raised" /\ result.exc.type = type
UnsupportedDatasetRaised ==
    RaisedError("ValueError") /\ result.exc.msg[1] = "Unsupported dataset: "

\* the names build_vtab_dataset has a branch for
VtabBranchExists(name) ==
    \/ name \in VtabNames
    \/ \E b \in TaskBases : BeginsWith(name, b)

C1_WitnessVtab ==
    /\ BuildDone
    /\ UnsupportedDatasetRaised
    /\ BeginsWith(request.dataset_name, Lit.vtab_)

(***************************************************************************)
(* C2: for flickr30k and flickr8k with an annotation file path that does   *)
(* not exist, build_dataset prints the remediation URL, then exits the     *)
(* process with status 1, and the Flickr constructor is never invoked;     *)
(* with a path that exists nothing exits and the backend is constructed    *)
(* exactly once.                                                           *)
(***************************************************************************)
FlickrUrlMessage(d) == IF d = Lit.flickr30k THEN MSG_FLICKR30K ELSE MSG_FLICKR8K

FlickrWithPath ==
    /\ BuildDone
    /\ request.dataset_name \in {Lit.flickr30k, Lit.flickr8k}
    /\ request.annotation_file # None

C2_FlickrGate ==
    FlickrWithPath =>
        IF request.annotation_file.v \notin fs
        THEN /\ result = [outcome |-> "exit", status |-> 1]
             /\ pc = "exited"
             /\ Constructions = {}
             /\ \E i \in Prints, j \in ExitCalls :
                    /\ i < j
                    /\ events[i].msg = FlickrUrlMessage(request.dataset_name)
                    /\ events[j].status = 1
        ELSE /\ ExitCalls = {}
             /\ result.outcome # "exit"
             /\ pc = "done"
             /\ Cardinality(Constructions) = 1
             /\ \A i \in Constructions : events[i].cls = "flickr.Flickr"

C2_Witness ==
    /\ FlickrWithPath
    /\ request.annotation_file.v \notin fs
    /\ pc = "exited"
    /\ ExitCalls # {}

(***************************************************************************)
(* C3: for mscoco_captions with an annotation file path that does not      *)
(* exist, build_dataset prints the manual-download message and still       *)
(* invokes the CocoCaptions constructor with that path: the resolver       *)
(* neither raises nor exits before the backend construction.               *)
(***************************************************************************)
CocoMissingPath ==
    /\ BuildDone
    /\ request.dataset_name = Lit.mscoco_captions
    /\ request.annotation_file # None
    /\ request.annotation_file.v \notin fs

C3_CocoWarnAndDefer ==
    CocoMissingPath =>
        /\ \E i \in Prints, j \in Constructions :
               /\ i < j
               /\ events[i].msg = MSG_COCO
               /\ events[j].cls = "CocoCaptions"
               /\ events[j].args.annFile = request.annotation_file
        /\ ExitCalls = {}
        /\ pc = "done"
        /\ result.outcome \in {"returned", "raised"}
        /\ result.outcome = "raised" => result.exc.type = "BackendError"

C3_Witness ==
    /\ CocoMissingPath
    /\ Prints # {}
    /\ Constructions # {}
    /\ result.outcome = "returned"

(***************************************************************************)
(* C4 as stated: an annotation file that was not supplied (None) is        *)
(* treated as a missing artifact: flickr30k/flickr8k print the URL and     *)
(* exit with status 1, mscoco_captions prints the message and goes on to   *)
(* the backend construction, and the existence check raises nothing.       *)
(***************************************************************************)
C4_NoneIsMissing ==
    (BuildDone /\ request.annotation_file = None) =>
        /\ request.dataset_name \in {Lit.flickr30k, Lit.flickr8k} =>
               /\ result = [outcome |-> "exit", status |-> 1]
               /\ \E i \in Prints :
                      events[i].msg = FlickrUrlMessage(request.dataset_name)
        /\ request.dataset_name = Lit.mscoco_captions =>
               /\ \E i \in Prints : events[i].msg = MSG_COCO
               /\ \E j \in Constructions : events[j].cls = "CocoCaptions"
        /\ request.dataset_name \in {Lit.flickr30k, Lit.flickr8k, Lit.mscoco_captions}
               => ~RaisedError("TypeError")

(***************************************************************************)
(* C5.  The label that is read is the one the constructed dataset hands    *)
(* out for its sample 0, through the target_transform the backend was      *)
(* constructed with.                                                       *)
(***************************************************************************)
FlowersResolved ==
    /\ BuildDone
    /\ request.dataset_name = Lit.flowers
    /\ result.outcome = "returned"

ForwardedTargetTransform ==
    IF "target_transform" \in DOMAIN request.kwargs
    THEN request.kwargs.target_transform
    ELSE "None"

\* the label of sample i (from 0) as the dataset is constructed, and as it is returned
ConstructedLabel(i) == apply_target_transform(ForwardedTargetTransform, backend.labels[i + 1])
EffectiveLabel(i) == apply_target_transform(result.value.target_transform, backend.labels[i + 1])
DecrementInstalled == result.value.target_transform = "lambda y:y-1"
SampleIndexes == 0..(Len(backend.labels) - 1)

C5_Shared ==
    /\ DecrementInstalled <=> ConstructedLabel(0) = 1
    /\ Cardinality({i \in 1..Len(events) : events[i].ev = "getitem"}) = 1
    /\ \A i \in 1..Len(events) :
           events[i].ev = "getitem" =>
               /\ events[i].index = 0
               /\ \E j \in Constructions : j < i
    /\ ConstructedLabel(0) = 0 =>
           /\ result.value.target_transform = ForwardedTargetTransform
           /\ \A i \in SampleIndexes : EffectiveLabel(i) = ConstructedLabel(i)
    /\ result.value.classes = [src |-> "classnames", key |-> Lit.flowers]

(***************************************************************************)
(* C5 as stated: resolving flowers installs the decrement if and only if   *)
(* the label of sample 0, read once after construction, is 1; when         *)
(* installed, the effective label of that first sample is 0; when the      *)
(* first label is 0 the target transform is not changed and every label    *)
(* passes through unchanged; classes is the curated flowers vocabulary.    *)
(***************************************************************************)
C5_AsStated ==
    FlowersResolved =>
        /\ C5_Shared
        /\ DecrementInstalled => EffectiveLabel(0) = 0

(***************************************************************************)
(* C5, amended: as stated, except that when the decrement is installed it  *)
(* replaces any target_transform forwarded in the options, so that the     *)
(* effective label of the first sample is its stored label minus 1; it is  *)
(* 0 when no target_transform option was given.                            *)
(***************************************************************************)
C5_FlowersProbe ==
    FlowersResolved =>
        /\ C5_Shared
        /\ DecrementInstalled =>
               /\ EffectiveLabel(0) = backend.labels[1] - 1
               /\ ForwardedTargetTransform = "None" => EffectiveLabel(0) = 0

C5_Witness ==
    /\ FlowersResolved
    /\ ForwardedTargetTransform = "None"
    /\ backend.labels[1] = 1
    /\ DecrementInstalled
    /\ EffectiveLabel(0) = 0

C5_WitnessUnchanged ==
    /\ FlowersResolved
    /\ ConstructedLabel(0) = 0
    /\ ~DecrementInstalled

(***************************************************************************)
(* C6 as stated: for every identifier that resolves to a backend, the      *)
(* extra keyword options given to build_dataset are passed unchanged to    *)
(* the backend constructor that is selected.                               *)
(***************************************************************************)
C6_OptionsForwarded ==
    (BuildDone /\ Constructions # {}) =>
        \E i \in Constructions :
            \A k \in DOMAIN request.kwargs :
                /\ k \in DOMAIN events[i].args
                /\ events[i].args[k] = request.kwargs[k]

(***************************************************************************)
(* C7 as stated: get_zeroshot_classification_templates returns a template  *)
(* sequence for every identifier, and whenever the name obtained after     *)
(* stripping the namespace is not a key of the template table the result   *)
(* is exactly the imagenet1k template sequence.                            *)
(***************************************************************************)
TemplatesDone == request.op = "get_zeroshot_classification_templates" /\ pc = "done"
StrippedName(d) == IF Namespaced(d) THEN Drop(d, 5) ELSE d
TemplateKeys == DOMAIN zeroshot_classification_templates

C7_TotalWithFallback ==
    TemplatesDone =>
        /\ result.outcome = "returned"
        /\ StrippedName(request.dataset_name) \notin TemplateKeys =>
               result.value = zeroshot_classification_templates[Lit.imagenet1k]

(***************************************************************************)
(* C8 as stated: for every name, the lookups of 'vtab/' + name, of         *)
(* 'tfds/' + name and of name return identical sequences: the lookup       *)
(* strips exactly the leading namespace prefix and looks up the name that  *)
(* build_dataset passes to the tfds/vtab builders, everything after the    *)
(* first '/'.                                                              *)
(***************************************************************************)
C8_NamespaceStripping ==
    (TemplatesDone /\ Namespaced(request.dataset_name)) =>
        LET name == Drop(request.dataset_name, 5)
        IN  /\ result = get_zeroshot_classification_templates(name)
            /\ result = get_zeroshot_classification_templates(Lit.vtab_ \o name)
            /\ result = get_zeroshot_classification_templates(Lit.tfds_ \o name)
            /\ template_name(request.dataset_name)
                   = Returned(namespace_name(request.dataset_name))

(***************************************************************************)
(* C9: get_dataset_collate_fn returns the caption-aware collator exactly   *)
(* for mscoco_captions, flickr30k and flickr8k and the default stacker     *)
(* for every other identifier, and never fails.                            *)
(***************************************************************************)
CollateSelected == request.op = "get_dataset_collate_fn" /\ pc = "done"

C9_CollateSelection ==
    CollateSelected =>
        /\ result.outcome = "returned"
        /\ result.value \in {"image_captions_collate_fn", "default_collate"}
        /\ result.value = "image_captions_collate_fn" <=>
               request.dataset_name \in {Lit.mscoco_captions, Lit.flickr30k, Lit.flickr8k}

C9_Witness ==
    /\ CollateSelected
    /\ request.dataset_name = Lit.flickr8k
    /\ result.value = "image_captions_collate_fn"

C9_WitnessDefault ==
    /\ CollateSelected
    /\ request.dataset_name = Lit.vtab_ \o Lit.flickr8k
    /\ result.value = "default_collate"

(***************************************************************************)
(* C10: for every non-empty batch of (image, caption list) pairs,          *)
(* image_captions_collate_fn returns a pair whose second component has     *)
(* the length of the batch and holds the samples' caption lists unchanged  *)
(* and in batch order, and whose first component is the default stacking   *)
(* of the images in batch order.                                           *)
(***************************************************************************)
BatchCollated ==
    /\ request.op = "image_captions_collate_fn"
    /\ pc = "done"
    /\ request.batch # <<>>

C10_CaptionCollate ==
    BatchCollated =>
        /\ result.outcome = "returned"
        /\ Len(result.value) = 2
        /\ Len(result.value[2]) = Len(request.batch)
        /\ \A i \in 1..Len(request.batch) : result.value[2][i] = request.batch[i][2]
        /\ result.value[1] =
               [stacked |-> [i \in 1..Len(request.batch) |-> request.batch[i][1]]]

C10_Witness ==
    /\ BatchCollated
    /\ Len(request.batch) = 2
    /\ Len(request.batch[1][2]) # Len(request.batch[2][2])
    /\ result.outcome = "returned"
    /\ result.value[2] = <<request.batch[1][2], request.batch[2][2]>>

(***************************************************************************)
(* More vocabulary: the position of the first occurrence of a character,   *)
(* the text before a position, and the calls of this module's builders.    *)
(***************************************************************************)
FirstIndex(s, c) ==
    IF \E i \in 1..Len(s) : s[i] = c
    THEN CHOOSE i \in 1..Len(s) : s[i] = c /\ \A j \in 1..(i - 1) : s[j] # c
    ELSE 0
Before(s, n) == [i \in 1..(n - 1) |-> s[i]]
BuilderCalls(fn) == {i \in 1..Len(events) : events[i].ev = "call" /\ events[i].fn = fn}
TfdsBuilders ==
    {i \in 1..Len(events) : events[i].ev = "construct" /\ events[i].cls = "tfds.builder"}

(***************************************************************************)
(* C11: for an identifier starting with 'tfds/' or 'vtab/' the family is   *)
(* the text before the first '/', the name is all the text after the first *)
(* '/', family + '/' + name is the identifier, and that name is what the   *)
(* builder of the family is called with (and, on the tfds path, what the   *)
(* backend builder is created for).                                        *)
(***************************************************************************)
C11_Decomposition ==
    (BuildDone /\ Namespaced(request.dataset_name)) =>
        LET d == request.dataset_name
            slash == FirstIndex(d, "/")
            family == Before(d, slash)
            name == Drop(d, slash)
            fn == IF family = Before(Lit.tfds_, 5)
                  THEN "build_tfds_dataset" ELSE "build_vtab_dataset"
        IN  /\ namespace_prefix(d) = family
            /\ Cardinality(BuilderCalls(fn)) = 1
            /\ \A k \in BuilderCalls(fn) :
                  /\ k = 1
                  /\ events[k].args.name = name
                  /\ family \o <<"/">> \o events[k].args.name = d
            /\ \A k \in TfdsBuilders : events[k].args.name = name

\* a tfds identifier whose name itself contains '/' reached the builder whole
C11_Witness ==
    /\ BuildDone
    /\ BeginsWith(request.dataset_name, Lit.tfds_)
    /\ FirstIndex(Drop(request.dataset_name, 5), "/") > 1
    /\ TfdsBuilders # {}
    /\ BuilderCalls("build_tfds_dataset") = {1}

(***************************************************************************)
(* C12: for a name with at least one underscore _extract_task returns      *)
(* everything after the first underscore, so that base + '_' + task is the *)
(* name again; for a name without underscore, or one that ends right after *)
(* its first underscore, it returns the empty string.                      *)
(***************************************************************************)
ExtractDone == request.op = "_extract_task" /\ pc = "done"

C12_ExtractTask ==
    ExtractDone =>
        LET n == request.dataset_name
            u == FirstIndex(n, "_")
        IN  /\ result.outcome = "returned"
            /\ (u > 0) => /\ result.value = Drop(n, u)
                          /\ Before(n, u) \o <<"_">> \o result.value = n
            /\ (u = 0 \/ u = Len(n)) => result.value = <<>>

\* a task that itself contains an underscore was returned whole
C12_Witness ==
    /\ ExtractDone
    /\ FirstIndex(request.dataset_name, "_") > 1
    /\ FirstIndex(result.value, "_") > 1
    /\ result.value # <<>>

\* a name ending right after its first underscore gave the empty task
C12_WitnessEmpty ==
    /\ ExtractDone
    /\ FirstIndex(request.dataset_name, "_") = Len(request.dataset_name)
    /\ Len(request.dataset_name) > 1
    /\ result.value = <<>>

(***************************************************************************)
(* C13: on the vtab path a name that starts with 'clevr_', 'dsprites_',    *)
(* 'smallnorb_' or 'kitti_' and whose task (the text after the first       *)
(* underscore) is not in the allowed set of its base fails with an         *)
(* assertion failure, before any task adapter and before the streaming     *)
(* wrapper is constructed.                                                 *)
(***************************************************************************)
AllowedTasks(base) ==
    CASE base = Lit.clevr_ -> CLEVR_TASKS
      [] base = Lit.dsprites_ -> DSPRITES_TASKS
      [] base = Lit.smallnorb_ -> SMALLNORB_TASKS
      [] base = Lit.kitti_ -> KITTI_TASKS

\* the vtab name of the request has a task-parameterised base and a task
\* outside the allowed set of that base
TaskNotAllowed ==
    /\ BeginsWith(request.dataset_name, Lit.vtab_)
    /\ LET name == Drop(request.dataset_name, 5)
       IN  \E b \in TaskBases :
              /\ BeginsWith(name, b)
              /\ Drop(name, FirstIndex(name, "_")) \notin AllowedTasks(b)

C13_TaskAssertion ==
    (BuildDone /\ TaskNotAllowed) =>
        /\ RaisedError("AssertionError")
        /\ Constructions = {}
        /\ BuilderCalls("build_vtab_dataset") = {1}

\* kitti with a task that only dsprites allows
C13_Witness ==
    /\ BuildDone
    /\ TaskNotAllowed
    /\ request.dataset_name = Lit.vtab_ \o Lit.kitti_ \o Lit.label_shape
    /\ RaisedError("AssertionError")

\* a base with nothing after its underscore
C13_WitnessEmptyTask ==
    /\ BuildDone
    /\ TaskNotAllowed
    /\ request.dataset_name = Lit.vtab_ \o Lit.clevr_
    /\ RaisedError("AssertionError")

(***************************************************************************)
(* C14: on the tfds path, once the backend builder exists: if the          *)
(* requested split is not among the splits the builder reports, the call   *)
(* fails with an assertion failure and the generic dataset adapter is      *)
(* never constructed; otherwise the adapter is constructed exactly once,   *)
(* with the requested split unchanged and the integer cast as target       *)
(* transform.                                                              *)
(***************************************************************************)
GenericAdapters ==
    {i \in 1..Len(events) :
        events[i].ev = "construct" /\ events[i].cls = "timm.data.create_dataset"}

TfdsBuilt ==
    /\ BuildDone
    /\ BeginsWith(request.dataset_name, Lit.tfds_)
    /\ backend.ctor_ok

C14_TfdsSplit ==
    TfdsBuilt =>
        /\ Cardinality(TfdsBuilders) = 1
        /\ IF request.split \notin backend.splits
           THEN /\ RaisedError("AssertionError")
                /\ GenericAdapters = {}
           ELSE /\ result.outcome = "returned"
                /\ Cardinality(GenericAdapters) = 1
                /\ \A i \in GenericAdapters :
                      /\ \A k \in TfdsBuilders : k < i
                      /\ events[i].args.split = request.split
                      /\ events[i].args.target_transform = "int"

\* the split 'val' was asked of a builder that reports 'train' and 'validation'
C14_Witness ==
    /\ TfdsBuilt
    /\ request.split = "val"
    /\ backend.splits = {"train", "validation"}
    /\ RaisedError("AssertionError")
    /\ TfdsBuilders # {}

\* a reported split was asked for and the adapter constructed
C14_WitnessBuilt ==
    /\ TfdsBuilt
    /\ request.split = "train"
    /\ Cardinality(GenericAdapters) = 1
    /\ result.outcome = "returned"

(***************************************************************************)
(* C15: a handle returned for imagenet1k, caltech101, flowers, mnist,      *)
(* eurosat, gtsrb, country211, pcam or fer2013 has as classes the curated  *)
(* vocabulary stored under that same identifier; a handle returned for     *)
(* cifar10, cifar100, voc2007, mscoco_captions, flickr30k, flickr8k, cars, *)
(* fgvc_aircraft, dtd, pets, stl10 or renderedsst2 is the object the       *)
(* backend constructed, its classes and every other attribute untouched.   *)
(***************************************************************************)
CuratedIdentifiers ==
    {Lit.imagenet1k, Lit.caltech101, Lit.flowers, Lit.mnist, Lit.eurosat, Lit.gtsrb,
     Lit.country211, Lit.pcam, Lit.fer2013}
UntouchedIdentifiers ==
    {Lit.cifar10, Lit.cifar100, Lit.voc2007, Lit.mscoco_captions, Lit.flickr30k,
     Lit.flickr8k, Lit.cars, Lit.fgvc_aircraft, Lit.dtd, Lit.pets, Lit.stl10,
     Lit.renderedsst2}

HandleReturned == BuildDone /\ result.outcome = "returned"

\* the object exactly as the constructor call of event i left it
AsConstructed(i) ==
    [cls |-> events[i].cls,
     args |-> events[i].args,
     classes |-> [src |-> "backend"],
     target_transform |->
         IF "target_transform" \in DOMAIN request.kwargs
         THEN request.kwargs.target_transform ELSE "None",
     labels |-> backend.labels]

C15_ClassesOverride ==
    /\ (HandleReturned /\ request.dataset_name \in CuratedIdentifiers) =>
          /\ request.dataset_name \in DOMAIN classnames
          /\ result.value.classes = [src |-> "classnames", key |-> request.dataset_name]
    /\ (HandleReturned /\ request.dataset_name \in UntouchedIdentifiers) =>
          /\ Cardinality(Constructions) = 1
          /\ \A i \in Constructions : result.value = AsConstructed(i)

\* a eurosat handle carries the eurosat vocabulary
C15_Witness ==
    /\ HandleReturned
    /\ request.dataset_name = Lit.eurosat
    /\ result.value.classes.key = Lit.eurosat
    /\ classnames[result.value.classes.key][1] = "annual crop land"

\* a pets handle built with a forwarded option came back as constructed
C15_WitnessUntouched ==
    /\ HandleReturned
    /\ request.dataset_name = Lit.pets
    /\ request.kwargs # <<>>
    /\ result.value.classes = [src |-> "backend"]

(***************************************************************************)
(* C16: the classes attached to a returned handle have the documented      *)
(* number of entries: imagenet1k 1000, eurosat 10, mnist 10, flowers 102,  *)
(* gtsrb 43, country211 211, pcam 2, fer2013 7.                            *)
(***************************************************************************)
DocumentedCount ==
    Lit.imagenet1k :> 1000 @@ Lit.eurosat :> 10 @@ Lit.mnist :> 10
    @@ Lit.flowers :> 102 @@ Lit.gtsrb :> 43 @@ Lit.country211 :> 211
    @@ Lit.pcam :> 2 @@ Lit.fer2013 :> 7

C16_ClassCounts ==
    (HandleReturned /\ request.dataset_name \in DOMAIN DocumentedCount) =>
        /\ result.value.classes.src = "classnames"
        /\ Len(classnames[result.value.classes.key])
               = DocumentedCount[request.dataset_name]

\* an imagenet1k handle with its 1000 class names
C16_Witness ==
    /\ HandleReturned
    /\ request.dataset_name = Lit.imagenet1k
    /\ Len(classnames[result.value.classes.key]) = 1000

(***************************************************************************)
(* C17: resolving fer2013 redirects the root to <root>/train when the      *)
(* split is 'train' and to <root>/test otherwise, probes that directory    *)
(* before any construction, prints the manual-download message when the    *)
(* directory is absent, and in both cases constructs the folder backend on *)
(* the redirected root; the resolver itself neither exits nor raises (only *)
(* the backend may), and a returned handle has the 7-entry fer2013         *)
(* vocabulary as classes.                                                  *)
(***************************************************************************)
Fer2013Done == BuildDone /\ request.dataset_name = Lit.fer2013
RedirectedRoot ==
    Append(request.root, IF request.split = "train" THEN "train" ELSE "test")

C17_Fer2013 ==
    Fer2013Done =>
        LET present == RedirectedRoot \in fs
            last == Len(events)
        IN  /\ last = (IF present THEN 2 ELSE 3)
            /\ events[1] = [ev |-> "os.path.exists", path |-> Str(RedirectedRoot)]
            /\ ~present => events[2] = [ev |-> "print", msg |-> MSG_FER2013]
            /\ events[last].ev = "construct"
            /\ events[last].cls = "ImageFolder"
            /\ events[last].args.root = RedirectedRoot
            /\ ExitCalls = {}
            /\ result.outcome \in {"returned", "raised"}
            /\ result.outcome = "raised" => result.exc.type = "BackendError"
            /\ result.outcome = "returned" =>
                  /\ result.value.classes = [src |-> "classnames", key |-> Lit.fer2013]
                  /\ Len(classnames[Lit.fer2013]) = 7

\* split 'train', <root>/train absent while <root>/test exists: the message
\* is printed and the folder backend still constructed on <root>/train
C17_Witness ==
    /\ Fer2013Done
    /\ request.split = "train"
    /\ RedirectedRoot \notin fs
    /\ Append(request.root, "test") \in fs
    /\ Prints # {}
    /\ result.outcome = "returned"

\* split 'val' is redirected to <root>/test, which exists: nothing printed
C17_WitnessPresent ==
    /\ Fer2013Done
    /\ request.split = "val"
    /\ RedirectedRoot \in fs
    /\ Prints = {}
    /\ Constructions # {}

(***************************************************************************)
(* C18: handles returned by separate calls of build_dataset share no       *)
(* mutable state with each other or with the static tables: the classes of *)
(* a handle change only when the caller edits the classes of that very     *)
(* handle, and every call attaches the vocabulary as it was loaded.        *)
(***************************************************************************)
ClassesOf(h) == list_contents(h.ds.classes, h.own, appended)

DatasetBackends ==
    {i \in 1..Len(events) :
        /\ events[i].ev = "construct"
        /\ events[i].cls \notin {"tfds.builder", "VTABIterableDataset"}}

AnnotationMissing ==
    /\ request.annotation_file # None
    /\ request.annotation_file.v \notin fs

C19_ExitOnlyFlickr ==
    BuildDone =>
        /\ (pc = "exited") = (result.outcome = "exit")
        /\ (ExitCalls # {}) = (result.outcome = "exit")
        /\ result.outcome = "exit" =>
              /\ request.dataset_name \in {Lit.flickr30k, Lit.flickr8k}
              /\ AnnotationMissing
              /\ DatasetBackends = {}
        /\ result.outcome # "exit" => result.outcome \in {"returned", "raised"}
        /\ Cardinality(DatasetBackends) <= 1

\* flickr8k with a missing annotation file ended the process
C19_Witness ==
    /\ BuildDone
    /\ request.dataset_name = Lit.flickr8k
    /\ AnnotationMissing
    /\ pc = "exited"
    /\ ExitCalls # {}

\* a missing annotation file for another identifier, and a missing fer2013
\* directory, do not end the process
C19_WitnessNoExit ==
    /\ BuildDone
    /\ request.dataset_name \in {Lit.mscoco_captions, Lit.fer2013}
    /\ fs = {}
    /\ request.annotation_file # None
    /\ pc = "done"
    /\ Cardinality(DatasetBackends) = 1

(***************************************************************************)
(* C20: dispatch is exclusive.  Every call of build_dataset selects        *)
(* exactly one of four outcomes: one direct backend, the tfds path, the    *)
(* vtab path, or the unsupported-identifier failure.  A direct identifier  *)
(* selects its direct backend and never a namespaced path; an identifier   *)
(* starting with 'tfds/' or 'vtab/' selects that path and never constructs *)
(* a direct backend.                                                       *)
(***************************************************************************)
DirectBackend ==
    Lit.cifar10 :> "CIFAR10" @@ Lit.cifar100 :> "CIFAR100" @@ Lit.imagenet1k :> "ImageNet"
    @@ Lit.voc2007 :> "voc2007.PASCALVoc2007" @@ Lit.mscoco_captions :> "CocoCaptions"
    @@ Lit.flickr30k :> "flickr.Flickr" @@ Lit.flickr8k :> "flickr.Flickr"
    @@ Lit.food101 :> "Food101" @@ Lit.sun397 :> "SUN397" @@ Lit.cars :> "StanfordCars"
    @@ Lit.fgvc_aircraft :> "FGVCAircraft" @@ Lit.dtd :> "DTD"
    @@ Lit.pets :> "OxfordIIITPet" @@ Lit.caltech101 :> "caltech101.Caltech101"
    @@ Lit.flowers :> "Flowers102" @@ Lit.mnist :> "MNIST" @@ Lit.stl10 :> "STL10"
    @@ Lit.eurosat :> "EuroSAT" @@ Lit.gtsrb :> "GTSRB" @@ Lit.country211 :> "Country211"
    @@ Lit.pcam :> "PCAM" @@ Lit.renderedsst2 :> "RenderedSST2"
    @@ Lit.fer2013 :> "ImageFolder"
DirectBackendClasses == {DirectBackend[d] : d \in DOMAIN DirectBackend}

TfdsPath == BuilderCalls("build_tfds_dataset") # {}
VtabPath == BuilderCalls("build_vtab_dataset") # {}
UnsupportedFailure ==
    /\ events = <<>>
    /\ RaisedError("ValueError")
    /\ result.exc.msg = <<"Unsupported dataset: ", request.dataset_name, ".">>
\* the branch of a direct identifier was taken: it probed a path or called
\* the constructor of that identifier's backend, and called no builder
DirectSelected ==
    /\ request.dataset_name \in DOMAIN DirectBackend
    /\ events # <<>>
    /\ events[1].ev \in {"os.path.exists", "construct"}
    /\ \A i \in 1..Len(events) : events[i].ev # "call"
    /\ \A i \in Constructions : events[i].cls = DirectBackend[request.dataset_name]

Selected ==
    {o \in {"direct", "tfds", "vtab", "unsupported"} :
        \/ o = "direct" /\ DirectSelected
        \/ o = "tfds" /\ TfdsPath
        \/ o = "vtab" /\ VtabPath
        \/ o = "unsupported" /\ UnsupportedFailure}

C20_ExclusiveDispatch ==
    BuildDone =>
        LET d == request.dataset_name
        IN  /\ Cardinality(Selected) = 1
            /\ DirectSelected = (d \in DOMAIN DirectBackend)
            /\ TfdsPath = BeginsWith(d, Lit.tfds_)
            /\ VtabPath = BeginsWith(d, Lit.vtab_)
            /\ (TfdsPath \/ VtabPath) =>
                  \A i \in Constructions : events[i].cls \notin DirectBackendClasses

\* 'vtab/eurosat' went to build_vtab_dataset and constructed its adapter
C20_Witness ==
    /\ BuildDone
    /\ request.dataset_name = Lit.vtab_ \o Lit.eurosat
    /\ Selected = {"vtab"}
    /\ Constructions # {}

\* 'eurosat' constructed the direct EuroSAT backend
C20_WitnessDirect ==
    /\ BuildDone
    /\ request.dataset_name = Lit.eurosat
    /\ Selected = {"direct"}
    /\ \E i \in Constructions : events[i].cls = "EuroSAT"

(***************************************************************************)
(* C21: for the direct identifiers that take a split, the backend receives *)
(* the training split if and only if the split argument is exactly the     *)
(* string 'train': cifar10, cifar100 and mnist get train = True/False; the *)
(* others get 'train' or else 'test' ('val' for imagenet1k).  Every other  *)
(* split string, valid or not, is mapped to the test split and never       *)
(* rejected by the resolver.                                               *)
(***************************************************************************)
BooleanSplitIdentifiers == {Lit.cifar10, Lit.cifar100, Lit.mnist}
NamedSplitIdentifiers ==
    {Lit.voc2007, Lit.food101, Lit.cars, Lit.fgvc_aircraft, Lit.dtd, Lit.pets,
     Lit.flowers, Lit.stl10, Lit.gtsrb, Lit.country211, Lit.pcam, Lit.renderedsst2,
     Lit.imagenet1k}

\* the split a constructor call was given, under whichever keyword
GivenSplit(args) == IF "set" \in DOMAIN args THEN args.set ELSE args.split

C21_SplitMapping ==
    LET d == request.dataset_name
        asked_train == (request.split = "train")
    IN  /\ (BuildDone /\ d \in BooleanSplitIdentifiers) =>
              /\ Cardinality(Constructions) = 1
              /\ \A i \in Constructions : events[i].args.train = asked_train
              /\ result.outcome = "raised" => result.exc.type = "BackendError"
        /\ (BuildDone /\ d \in NamedSplitIdentifiers) =>
              /\ Cardinality(Constructions) = 1
              /\ \A i \in Constructions :
                    GivenSplit(events[i].args) =
                        IF asked_train THEN "train"
                        ELSE IF d = Lit.imagenet1k THEN "val" ELSE "test"
              /\ result.outcome = "raised" => result.exc.type = "BackendError"

\* the split 'validation' reached the pets backend as 'test'
C21_Witness ==
    /\ BuildDone
    /\ request.dataset_name = Lit.pets
    /\ request.split = "validation"
    /\ \E i \in Constructions : events[i].args.split = "test"
    /\ result.outcome = "returned"

\* the empty split reached imagenet1k as 'val' and mnist as train = False
C21_WitnessEmpty ==
    /\ BuildDone
    /\ request.split = ""
    /\ \/ /\ request.dataset_name = Lit.imagenet1k
          /\ \E i \in Constructions : events[i].args.split = "val"
       \/ /\ request.dataset_name = Lit.mnist
          /\ \E i \in Constructions : events[i].args.train = FALSE

(***************************************************************************)
(* C22: for food101 and sun397 the returned classes have the length and    *)
(* order of the backend's own class list, the i-th entry is the i-th       *)
(* native name with every underscore replaced by one space, no entry       *)
(* contains an underscore, and the replacement applied again changes       *)
(* nothing.                                                                *)
(***************************************************************************)
RenamedDone ==
    HandleReturned /\ request.dataset_name \in {Lit.food101, Lit.sun397}

\* name with each underscore replaced by one space, character by character
Respaced(name) == [j \in 1..Len(name) |-> IF name[j] = "_" THEN " " ELSE name[j]]

C22_UnderscoresToSpaces ==
    RenamedDone =>
        LET native == backend.classes
            out == result.value.classes.names
        IN  /\ Len(out) = Len(native)
            /\ \A i \in 1..Len(native) :
                  /\ out[i] = Respaced(native[i])
                  /\ \A j \in 1..Len(out[i]) : out[i][j] # "_"
                  /\ spaces_for_underscores(out[i]) = out[i]

\* two names, one with adjacent underscores, came back in order
C22_Witness ==
    /\ RenamedDone
    /\ Len(backend.classes) = 2
    /\ backend.classes[1] = <<"a", "_", "_">>
    /\ backend.classes[2] = <<"_", "a">>
    /\ result.value.classes.names = << <<"a", " ", " ">>, <<" ", "a">> >>

(***************************************************************************)
(* C23: on the vtab path the streaming wrapper is constructed exactly      *)
(* once, after the per-dataset adapter and around it, with the caller's    *)
(* transform, an int cast on labels and the split passed through as given, *)
(* and with classes equal to the curated vocabulary for caltech101 (the    *)
(* caltech101_vtab one), clevr_count_all, clevr_closest_object_distance,   *)
(* diabetic_retinopathy, dmlab, eurosat, kitti_closest_vehicle_distance,   *)
(* pets, pcam and svhn, to the backend's feature names for the smallnorb   *)
(* tasks, and None for cars, cifar10, cifar100, cub, the dsprites tasks,   *)
(* dtd, food101, inaturalist, flowers, resisc45 and sun397.                *)
(***************************************************************************)
CuratedVtab ==
    Lit.caltech101 :> Lit.caltech101_vtab
    @@ Lit.clevr_count_all :> Lit.clevr_count_all
    @@ Lit.clevr_closest_object_distance :> Lit.clevr_closest_object_distance
    @@ Lit.diabetic_retinopathy :> Lit.diabetic_retinopathy
    @@ Lit.dmlab :> Lit.dmlab
    @@ Lit.eurosat :> Lit.eurosat
    @@ Lit.kitti_closest_vehicle_distance :> Lit.kitti_closest_vehicle_distance
    @@ Lit.pets :> Lit.pets
    @@ Lit.pcam :> Lit.pcam
    @@ Lit.svhn :> Lit.svhn
SmallnorbNames == {Lit.smallnorb_ \o t : t \in SMALLNORB_TASKS}
UnsetVtab ==
    {Lit.cars, Lit.cifar10, Lit.cifar100, Lit.cub, Lit.dtd, Lit.food101,
     Lit.inaturalist, Lit.flowers, Lit.resisc45, Lit.sun397}
    \cup {Lit.dsprites_ \o t : t \in DSPRITES_TASKS}

ExpectedVtabClasses(name) ==
    IF name \in DOMAIN CuratedVtab
    THEN [src |-> "classnames", key |-> CuratedVtab[name]]
    ELSE IF name \in SmallnorbNames
    THEN [src |-> "features", feature |-> Drop(name, Len(Lit.smallnorb_))]
    ELSE [tag |-> "None"]

Wrappers ==
    {i \in 1..Len(events) :
        events[i].ev = "construct" /\ events[i].cls = "VTABIterableDataset"}
TaskAdapters == Constructions \ Wrappers

\* a vtab name of the claim was resolved and the adapter's constructor did
\* not fail
VtabListed ==
    /\ BuildDone
    /\ BeginsWith(request.dataset_name, Lit.vtab_)
    /\ Drop(request.dataset_name, 5) \in DOMAIN CuratedVtab \cup SmallnorbNames \cup UnsetVtab
    /\ backend.ctor_ok

C23_VtabWrapper ==
    VtabListed =>
        /\ result.outcome = "returned"
        /\ Cardinality(Wrappers) = 1
        /\ Cardinality(TaskAdapters) = 1
        /\ \A w \in Wrappers :
              /\ \A a \in TaskAdapters :
                    /\ a < w
                    /\ events[w].args.tfds_dataset =
                           [cls |-> events[a].cls, args |-> events[a].args]
              /\ events[w].args.transform = request.transform
              /\ events[w].args.target_transform = "int"
              /\ events[w].args.split = request.split
              /\ events[w].args.classes =
                     ExpectedVtabClasses(Drop(request.dataset_name, 5))
              /\ result.value.classes = events[w].args.classes

\* vtab/caltech101 with an unknown split: wrapped with the caltech101_vtab
\* vocabulary and the split as given
C23_Witness ==
    /\ VtabListed
    /\ request.dataset_name = Lit.vtab_ \o Lit.caltech101
    /\ request.split = "validation"
    /\ request.transform = "preprocess"
    /\ \E w \in Wrappers :
          /\ events[w].args.classes.key = Lit.caltech101_vtab
          /\ events[w].args.split = "validation"

\* a smallnorb task takes the feature names, a dsprites task nothing
C23_WitnessTasks ==
    /\ VtabListed
    /\ \/ /\ request.dataset_name = Lit.vtab_ \o Lit.smallnorb_ \o Lit.label_azimuth
          /\ result.value.classes = [src |-> "features", feature |-> Lit.label_azimuth]
       \/ /\ request.dataset_name = Lit.vtab_ \o Lit.dsprites_ \o Lit.label_shape
          /\ result.value.classes = [tag |-> "None"]

(***************************************************************************)
(* C24: on the vtab path every failure caused by an unsupported name or an *)
(* unsupported task is an assertion failure, and every task in the allowed *)
(* set of its base (8 kitti, 2 clevr, 5 dsprites and 4 smallnorb tasks) is *)
(* accepted: the streaming wrapper is constructed and a handle returned.   *)
(***************************************************************************)
VtabCallDone ==
    /\ BuildDone
    /\ BeginsWith(request.dataset_name, Lit.vtab_)
    /\ backend.ctor_ok

\* the vtab name of the request is a base followed by a task the base allows
TaskAllowed ==
    LET name == Drop(request.dataset_name, 5)
    IN  \E b \in TaskBases :
           /\ BeginsWith(name, b)
           /\ Drop(name, FirstIndex(name, "_")) \in AllowedTasks(b)

C24_VtabFailures ==
    VtabCallDone =>
        /\ result.outcome = "raised" => result.exc.type = "AssertionError"
        /\ TaskAllowed => /\ result.outcome = "returned"
                          /\ Cardinality(Wrappers) = 1

(***************************************************************************)
(* The steps of a call in order: the builders and functions called and the *)
(* classes constructed.                                                    *)
(***************************************************************************)
Steps ==
    [i \in 1..Len(events) |->
        IF events[i].ev = "call" THEN events[i].fn
        ELSE IF events[i].ev = "construct" THEN events[i].cls
        ELSE events[i].ev]

\* the steps of the tfds path, given whether download/prepare is a step
TfdsSteps(prepared) ==
    <<"build_tfds_dataset", "disable_gpus_on_tensorflow", "tfds.builder">>
    \o (IF prepared THEN <<"builder.download_and_prepare">> ELSE <<>>)
    \o (IF request.split \in backend.splits
        THEN <<"timm.data.create_dataset">> ELSE <<>>)

NativeLabelNames ==
    result.outcome = "returned" =>
        result.value.classes = [src |-> "features", feature |-> Lit.label]

(***************************************************************************)
(* C25 as stated: on the tfds path the steps occur in the fixed order      *)
(* accelerator visibility disabled, backend builder created,               *)
(* download/prepare, split validation, adapter construction, classes       *)
(* attached; download/prepare is a step of every resolution; through       *)
(* build_dataset the attached classes are the backend's label names.       *)
(***************************************************************************)
C25_AsStated ==
    TfdsBuilt => (Steps = TfdsSteps(TRUE) /\ NativeLabelNames)

(***************************************************************************)
(* C25 amended: the same order, with download/prepare a step exactly when  *)
(* the download flag is true.                                              *)
(***************************************************************************)
C25_TfdsOrder ==
    TfdsBuilt => (Steps = TfdsSteps(request.download) /\ NativeLabelNames)

\* resolved without download: the builder is created and the adapter
\* constructed with no download/prepare between them
C25_Witness ==
    /\ TfdsBuilt
    /\ ~request.download
    /\ result.outcome = "returned"
    /\ Steps = <<"build_tfds_dataset", "disable_gpus_on_tensorflow", "tfds.builder",
                 "timm.data.create_dataset">>

\* resolved with download: all steps in order
C25_WitnessPrepared ==
    /\ TfdsBuilt
    /\ request.download
    /\ result.outcome = "returned"
    /\ Len(Steps) = 5
    /\ Steps[4] = "builder.download_and_prepare"

(***************************************************************************)
(* C26: after resolving flowers against a backend with N classes whose     *)
(* stored labels are all 0-indexed (0..N-1) or all 1-indexed (1..N), every *)
(* sample's effective label lies in 0..N-1 and is its zero-based class     *)
(* index, whatever the class of the sample at index 0.  (No                *)
(* target_transform is forwarded; N is NumClasses; a label 0 shows a       *)
(* 0-indexed backend, a label N a 1-indexed one.)                          *)
(***************************************************************************)
StoredLabels == {backend.labels[i] : i \in 1..Len(backend.labels)}
ZeroIndexed == StoredLabels \subseteq 0..(NumClasses - 1) /\ 0 \in StoredLabels
OneIndexed == StoredLabels \subseteq 1..NumClasses /\ NumClasses \in StoredLabels

C26_FlowersLabels ==
    (FlowersResolved /\ request.kwargs = <<>> /\ (ZeroIndexed \/ OneIndexed)) =>
        \A i \in SampleIndexes :
            /\ EffectiveLabel(i) \in 0..(NumClasses - 1)
            /\ EffectiveLabel(i) =
                   backend.labels[i + 1] - (IF OneIndexed THEN 1 ELSE 0)

(***************************************************************************)
(* C27: for sun397, eurosat, caltech101, mscoco_captions, flickr30k and    *)
(* flickr8k the split has no influence on the resolution: the call of the  *)
(* state and the call that differs from it only in the split take the same *)
(* gate decisions, invoke the same constructor with the same arguments and *)
(* end the same way.                                                       *)
(***************************************************************************)
SplitFreeIdentifiers ==
    {Lit.sun397, Lit.eurosat, Lit.caltech101, Lit.mscoco_captions, Lit.flickr30k,
     Lit.flickr8k}

\* the call of the request with another split, in the same environment
WithSplit(sp) ==
    build_dataset(request.dataset_name, request.root, request.transform, sp,
                  request.download, request.annotation_file, request.kwargs,
                  fs, backend)

C27_SplitIrrelevant ==
    (BuildDone /\ request.dataset_name \in SplitFreeIdentifiers) =>
        \A sp \in Splits :
            /\ WithSplit(sp).events = events
            /\ WithSplit(sp).result = result

\* eurosat resolved for 'train': the backend was not told of any split
C27_Witness ==
    /\ BuildDone
    /\ request.dataset_name = Lit.eurosat
    /\ request.split = "train"
    /\ result.outcome = "returned"
    /\ WithSplit("test").events = events
    /\ \A i \in Constructions :
          {"split", "train"} \cap DOMAIN events[i].args = {}

\* flickr30k with a missing annotation file exits for either split
C27_WitnessGate ==
    /\ BuildDone
    /\ request.dataset_name = Lit.flickr30k
    /\ request.split = "train"
    /\ pc = "exited"
    /\ WithSplit("test").result = result

(***************************************************************************)
(* C28: the 19 entries of VTAB_19TASKS are distinct; build_dataset accepts *)
(* each of them (it reaches a backend construction, and the resolver       *)
(* raises neither the unsupported-identifier nor the unsupported-task      *)
(* error nor a task assertion); and each has its own entry in the template *)
(* table, which is what get_zeroshot_classification_templates returns for  *)
(* it, not the imagenet1k default.                                         *)
(***************************************************************************)
VtabTasks == {VTAB_19TASKS[i] : i \in DOMAIN VTAB_19TASKS}

C28_Vtab19Tasks ==
    /\ Len(VTAB_19TASKS) = 19
    /\ \A i, j \in DOMAIN VTAB_19TASKS : VTAB_19TASKS[i] = VTAB_19TASKS[j] => i = j
    /\ (BuildDone /\ request.dataset_name \in VtabTasks) =>
          /\ DatasetBackends # {}
          /\ result.outcome \in {"returned", "raised"}
          /\ result.outcome = "raised" => result.exc.type = "BackendError"
          /\ backend.ctor_ok => result.outcome = "returned"
    /\ (TemplatesDone /\ request.dataset_name \in VtabTasks) =>
          /\ result.outcome = "returned"
          /\ StrippedName(request.dataset_name) \in TemplateKeys
          /\ result.value =
                 zeroshot_classification_templates[StrippedName(request.dataset_name)]
          /\ StrippedName(request.dataset_name) # Lit.imagenet1k

\* the kitti entry of the list was resolved to a handle
C28_Witness ==
    /\ BuildDone
    /\ request.dataset_name \in VtabTasks
    /\ request.dataset_name = Lit.vtab_ \o Lit.kitti_closest_vehicle_distance
    /\ result.outcome = "returned"
    /\ Wrappers # {}

\* the templates of a task entry of the list were looked up
C28_WitnessTemplates ==
    /\ TemplatesDone
    /\ request.dataset_name \in VtabTasks
    /\ request.dataset_name = Lit.vtab_ \o Lit.dsprites_label_x_position
    /\ result.value = zeroshot_classification_templates[Lit.dsprites_label_x_position]

(***************************************************************************)
(* C29: the download flag controls every explicit download step: when      *)
(* build_dataset is called with download false, no path (direct, tfds or   *)
(* vtab) calls a download or prepare operation, and no backend is given    *)
(* download = True.                                                        *)
(***************************************************************************)
DownloadSteps ==
    {i \in 1..Len(events) :
        /\ events[i].ev = "call"
        /\ events[i].fn \in {"builder.download_and_prepare", "download_tfds_dataset"}}
DownloadingBackends ==
    {i \in Constructions :
        "download" \in DOMAIN events[i].args /\ events[i].args.download = TRUE}

C29_DownloadFlag ==
    (BuildDone /\ ~request.download) =>
        /\ DownloadSteps = {}
        /\ DownloadingBackends = {}

=============================================================================
